---- MODULE Spec2Model ----
\* The license-expression parser of attribution_generator/license_manager.py
\* (LicenseManager._parse_expr and its ExprNode trees) and the renderer built
\* on it (LicenseManager.get_license_text, _get_individual_license_text).
\*
\* A Python str is a sequence of one-character strings: "A OR B" is
\* <<"A", " ", "O", "R", " ", "B">>.  Python indices are 0-based and slices
\* half-open; the operators below use 1-based positions and say so.
EXTENDS Integers, Sequences, FiniteSets, TLC

VARIABLES
    license_expression,       \* the argument of the call
    expr_tree,                \* the tree the parser returned, NoneNode before
    pc,                       \* where the call is
    licenses,                 \* self.licenses, the lookup table
    missing_licenses,         \* self.missing_licenses
    include_license_headers,  \* the header flag of get_license_text
    result,                   \* the string get_license_text returned
    calls,                    \* the calls made on the LicenseManager so far
    previous,                 \* the LicenseManager constructed before this one
    components,               \* the argument of the generator's methods
    license_serial_starts,    \* self.license_serial_starts
    templates,                \* self.template_manager.templates
    grouped,                  \* what group_by_license returned
    listed,                   \* the arguments of the component_listing calls
    attribution,              \* the run of generate_attribution: its outcome
    content,                  \* the argument of _clean_content
    cleaned                   \* what _clean_content returned

\* the state of a LicenseManager and of one call on it
manager_vars ==
    <<license_expression, expr_tree, pc, licenses, missing_licenses,
      include_license_headers, result>>

\* the record of the calls on a LicenseManager
session_vars == <<calls, previous>>

\* the state of an AttributionGenerator and of one call on it
generator_vars ==
    <<components, license_serial_starts, templates, grouped, listed,
      attribution, content, cleaned>>

vars == <<manager_vars, session_vars, generator_vars>>

\* no LicenseManager was constructed before
NoManager == [constructed |-> FALSE, calls |-> <<>>, missing_licenses |-> {}]

\* no call on a LicenseManager is on record
NoSession == calls = <<>> /\ previous = NoManager

\* no AttributionGenerator is involved
NoGenerator ==
    /\ components = <<>>
    /\ license_serial_starts = <<>>
    /\ templates = <<>>
    /\ grouped = <<>>
    /\ listed = <<>>
    /\ attribution = <<>>
    /\ content = <<>>
    /\ cleaned = <<>>

----------------------------------------------------------------------------
\* Bounds of the model

\* longest input, counted in pieces of the alphabet Pieces
MaxPieces == 4

\* most identifiers of a chain (see Chains)
MaxChain == 4

\* most operands of a nested input (see Nested)
MaxOperands == 2

\* depth at which the interpreter gives up on a recursion (RecursionError);
\* CPython's default is 1000, here it only has to exceed the deepest
\* recursion a bounded input can cause
RecursionLimit == 24

----------------------------------------------------------------------------
\* Python values

\* None where a string is expected (ExprNode.value, ExprNode.exception)
NoneStr == <<"None">>

\* None where a node is expected (ExprNode.left, ExprNode.right)
NoneNode == [kind |-> "None"]

\* the exception a too deep recursion raises, as the value of the call
RecursionError == [kind |-> "RecursionError"]

\* str.isspace() for the characters of the model: blank and tab
IsSpace(c) == c \in {" ", "\t"}

LowerCase == <<"a", "b", "c", "d", "e", "f", "g", "h", "i", "j", "k", "l", "m", "n", "o", "p", "q", "r", "s", "t", "u", "v", "w", "x", "y", "z">>
UpperCase == <<"A", "B", "C", "D", "E", "F", "G", "H", "I", "J", "K", "L", "M", "N", "O", "P", "Q", "R", "S", "T", "U", "V", "W", "X", "Y", "Z">>

\* str.upper() on the lower-case letters
ToUpper ==
    [c \in {LowerCase[i] : i \in 1..Len(LowerCase)} |->
        UpperCase[CHOOSE i \in 1..Len(LowerCase) : LowerCase[i] = c]]

\* one character of str.upper()
UpperChar(c) == IF c \in DOMAIN ToUpper THEN ToUpper[c] ELSE c

\* str.upper()
Upper(s) == [i \in 1..Len(s) |-> UpperChar(s[i])]

\* s[a:b] of Python for 0 <= a, written with 1-based inclusive positions
\* a+1 .. b; empty when the range is
Slice(s, from, to) ==
    IF from > to \/ from > Len(s) THEN <<>>
    ELSE SubSeq(s, from, IF to > Len(s) THEN Len(s) ELSE to)

RECURSIVE LeadingSpaces(_, _)
\* number of whitespace characters s starts with, from position i on
LeadingSpaces(s, i) ==
    IF i > Len(s) \/ ~IsSpace(s[i]) THEN 0 ELSE 1 + LeadingSpaces(s, i + 1)

RECURSIVE TrailingSpaces(_, _)
\* number of whitespace characters s[1..i] ends with
TrailingSpaces(s, i) ==
    IF i < 1 \/ ~IsSpace(s[i]) THEN 0 ELSE 1 + TrailingSpaces(s, i - 1)

\* a strip() that forgets the trailing whitespace
StripLeftOnly(s) == Slice(s, LeadingSpaces(s, 1) + 1, Len(s))

\* str.strip()
Strip(s) ==
    LET a == LeadingSpaces(s, 1)
        b == TrailingSpaces(s, Len(s))
    IN  IF a = Len(s) THEN <<>> ELSE SubSeq(s, a + 1, Len(s) - b)

----------------------------------------------------------------------------
\* ExprNode

\* ExprNode(kind, value=None, left=None, right=None, exception=None)
ExprNode(kind, value, left, right, exception) ==
    [kind |-> kind, value |-> value, left |-> left, right |-> right,
     exception |-> exception]

\* the operators as split_top is given them, and as node kinds (op.strip())
OpOr == <<" ", "O", "R", " ">>
OpAnd == <<" ", "A", "N", "D", " ">>
KindOf(op) == IF op = OpOr THEN "OR" ELSE "AND"

----------------------------------------------------------------------------
\* _parse_expr, step by step.  i, last and the segment bounds are Python's
\* 0-based indices; expr[i] of the code is expr[i + 1] here.

RECURSIVE WrapScan(_, _, _)
\* the for/else loop over enumerate(expr): FALSE when the loop breaks (the
\* depth is 0 before the last character), TRUE when it runs to its end
WrapScan(expr, i, depth) ==
    IF i >= Len(expr) THEN TRUE
    ELSE LET c == expr[i + 1]
             d == IF c = "(" THEN depth + 1
                  ELSE IF c = ")" THEN depth - 1 ELSE depth
         IN  IF d = 0 /\ i # Len(expr) - 1 THEN FALSE
             ELSE WrapScan(expr, i + 1, d)

\* the condition under which _parse_expr drops the outer parentheses:
\* startswith('('), endswith(')') and the loop did not break
FullyWrapped(expr) ==
    /\ Len(expr) >= 1
    /\ expr[1] = "("
    /\ expr[Len(expr)] = ")"
    /\ WrapScan(expr, 0, 0)

\* inner = expr[1:-1].strip()
Inner(expr) == Strip(Slice(expr, 2, Len(expr) - 1))

RECURSIVE SplitLoopAnyDepth(_, _, _, _, _, _)
\* a while loop of split_top that forgets the depth test
SplitLoopAnyDepth(expr, op, i, depth, last, segs) ==
    IF i >= Len(expr)
    THEN IF last < Len(expr) THEN Append(segs, <<last, Len(expr)>>) ELSE segs
    ELSE IF expr[i + 1] = "("
         THEN SplitLoopAnyDepth(expr, op, i + 1, depth + 1, last, segs)
    ELSE IF expr[i + 1] = ")"
         THEN SplitLoopAnyDepth(expr, op, i + 1, depth - 1, last, segs)
    ELSE IF Upper(Slice(expr, i + 1, i + Len(op))) = op
         THEN SplitLoopAnyDepth(expr, op, i + Len(op), depth, i + Len(op),
                                Append(segs, <<last, i>>))
    ELSE SplitLoopAnyDepth(expr, op, i + 1, depth, last, segs)

RECURSIVE SplitLoop(_, _, _, _, _, _)
\* the while loop of split_top and the append after it.  segs holds, for
\* every element the code appends to res, the slice bounds <<a, b>> of the
\* expr[a:b] that is appended (stripped, see SplitTop)
SplitLoop(expr, op, i, depth, last, segs) ==
    IF i >= Len(expr)
    THEN IF last < Len(expr) THEN Append(segs, <<last, Len(expr)>>) ELSE segs
    ELSE IF expr[i + 1] = "("
         THEN SplitLoop(expr, op, i + 1, depth + 1, last, segs)
    ELSE IF expr[i + 1] = ")"
         THEN SplitLoop(expr, op, i + 1, depth - 1, last, segs)
    ELSE IF depth = 0 /\ Upper(Slice(expr, i + 1, i + Len(op))) = op
         THEN SplitLoop(expr, op, i + Len(op), depth, i + Len(op),
                        Append(segs, <<last, i>>))
    ELSE SplitLoop(expr, op, i + 1, depth, last, segs)

\* the slices split_top cuts expr into, before the len(res) > 1 test
SplitSegments(expr, op) == SplitLoop(expr, op, 0, 0, 0, <<>>)

\* res of split_top: the stripped slices
SplitRes(expr, op) ==
    LET segs == SplitSegments(expr, op)
    IN  [k \in 1..Len(segs) |-> Strip(Slice(expr, segs[k][1] + 1, segs[k][2]))]

\* a split_top that returns res whatever its length
SplitTopAnyLength(expr, op) == SplitRes(expr, op)

\* split_top(expr, op): res when it has more than one element, else None;
\* None is <<>> here, which `if parts:` tells from a list of two or more
SplitTop(expr, op) ==
    LET res == SplitRes(expr, op)
    IN  IF Len(res) > 1 THEN res ELSE <<>>

Word_WITH == <<"W", "I", "T", "H">>

\* where \s+ WITH \s+ (.+)$ matches when the text before it ends at k:
\* the whitespace run at k is followed by WITH in any case, then by
\* whitespace, then by at least one more character.  The value is the
\* index group 2 starts at, or -1 when there is no match at k.
WithGroup2At(expr, k) ==
    LET n1 == LeadingSpaces(expr, k + 1)
        w == k + n1
        n2 == LeadingSpaces(expr, w + 5)
        rest == Len(expr) - (w + 4)
        taken == IF n2 = rest THEN n2 - 1 ELSE n2
    IN  IF /\ n1 >= 1
           /\ Upper(Slice(expr, w + 1, w + 4)) = Word_WITH
           /\ taken >= 1
        THEN w + 4 + taken
        ELSE -1

\* the match with a greedy group 1, (.*): it ends at the greatest k
WithMatchGreedy(expr) ==
    LET ks == {k \in 0..(Len(expr) - 1) : WithGroup2At(expr, k) >= 0}
    IN  IF ks = {} THEN [found |-> FALSE, group1 |-> <<>>, group2 |-> <<>>]
        ELSE LET k == CHOOSE x \in ks : \A y \in ks : x >= y
             IN  [found |-> TRUE,
                  group1 |-> Slice(expr, 1, k),
                  group2 |-> Slice(expr, WithGroup2At(expr, k) + 1, Len(expr))]

\* re.match(r'^(.*?)(?:\s+WITH\s+)(.+)$', expr, re.IGNORECASE): the lazy
\* group 1 ends at the least k with a match.  found is FALSE for m = None.
WithMatch(expr) ==
    LET ks == {k \in 0..(Len(expr) - 1) : WithGroup2At(expr, k) >= 0}
    IN  IF ks = {} THEN [found |-> FALSE, group1 |-> <<>>, group2 |-> <<>>]
        ELSE LET k == CHOOSE x \in ks : \A y \in ks : x <= y
             IN  [found |-> TRUE,
                  group1 |-> Slice(expr, 1, k),
                  group2 |-> Slice(expr, WithGroup2At(expr, k) + 1, Len(expr))]

RECURSIVE FoldRightFrom(_, _, _)
\* the nodes from the k-th on, nested to the right
FoldRightFrom(kind, nodes, k) ==
    IF k = Len(nodes) THEN nodes[k]
    ELSE ExprNode(kind, NoneStr, nodes[k], FoldRightFrom(kind, nodes, k + 1), NoneStr)

\* a fold that nests the first n nodes to the right
FoldRight(kind, nodes, n) == FoldRightFrom(kind, SubSeq(nodes, 1, n), 1)

RECURSIVE FoldLeft(_, _, _)
\* node = nodes[0]; for n in nodes[1:]: node = ExprNode(op.strip(), left=node,
\* right=n), over the first n nodes
FoldLeft(kind, nodes, n) ==
    IF n = 1 THEN nodes[1]
    ELSE ExprNode(kind, NoneStr, FoldLeft(kind, nodes, n - 1), nodes[n], NoneStr)

\* a WITH node built without its subject
WithNodeNoSubject(subject, exc) ==
    ExprNode("WITH", NoneStr, NoneNode, NoneNode, exc)

\* ExprNode('WITH', left=self._parse_expr(main), exception=exc)
WithNode(subject, exc) ==
    ExprNode("WITH", NoneStr, subject, NoneNode, exc)

\* ExprNode('LEAF', value=expr)
LeafNode(value) ==
    ExprNode("LEAF", value, NoneNode, NoneNode, NoneStr)

\* for op in [' AND ', ' OR ']: the loop with its operators the other way round
SplitOrderAndFirst == <<OpAnd, OpOr>>

\* for op in [' OR ', ' AND ']
SplitOrder == <<OpOr, OpAnd>>

\* the for loop over SplitOrder up to its return: the first op whose
\* split_top gives parts, with the parts; parts = <<>> when the loop ends
\* without returning
FirstSplit(expr) ==
    LET first == SplitTop(expr, SplitOrder[1])
    IN  IF first # <<>> THEN [op |-> SplitOrder[1], parts |-> first]
        ELSE [op |-> SplitOrder[2], parts |-> SplitTop(expr, SplitOrder[2])]

\* a _parse_expr that looks for WITH before it splits on OR and AND
StepWithFirst(expr) ==
    LET split == FirstSplit(expr)
        m == WithMatch(expr)
    IN  IF FullyWrapped(expr)
        THEN [rule |-> "PAREN", op |-> <<>>, args |-> <<Inner(expr)>>, exc |-> NoneStr]
        ELSE IF m.found
        THEN [rule |-> "WITH", op |-> <<>>, args |-> <<Strip(m.group1)>>,
              exc |-> Strip(m.group2)]
        ELSE IF split.parts # <<>>
        THEN [rule |-> "SPLIT", op |-> split.op, args |-> split.parts, exc |-> NoneStr]
        ELSE [rule |-> "LEAF", op |-> <<>>, args |-> <<>>, exc |-> NoneStr]

\* what _parse_expr does with the stripped expr: the return statement it
\* reaches (rule), the strings it calls itself on before (args: inner, the
\* parts of the split, main = m.group(1).strip(), none for a leaf), the
\* operator of the split (op) and exc = m.group(2).strip()
Step(expr) ==
    LET split == FirstSplit(expr)
        m == WithMatch(expr)
    IN  IF FullyWrapped(expr)
        THEN [rule |-> "PAREN", op |-> <<>>, args |-> <<Inner(expr)>>, exc |-> NoneStr]
        ELSE IF split.parts # <<>>
        THEN [rule |-> "SPLIT", op |-> split.op, args |-> split.parts, exc |-> NoneStr]
        ELSE IF m.found
        THEN [rule |-> "WITH", op |-> <<>>, args |-> <<Strip(m.group1)>>,
              exc |-> Strip(m.group2)]
        ELSE [rule |-> "LEAF", op |-> <<>>, args |-> <<>>, exc |-> NoneStr]

\* an exception raised in a recursive call leaves every caller
Raised(nodes) == \E k \in 1..Len(nodes) : nodes[k] = RecursionError

RECURSIVE ParseExpr(_, _)
\* self._parse_expr(e), as the call number `frames` on the interpreter stack
ParseExpr(e, frames) ==
    IF frames > RecursionLimit THEN RecursionError
    ELSE
    LET stripped == Strip(e)
        step == Step(stripped)
        nodes == [k \in 1..Len(step.args) |-> ParseExpr(step.args[k], frames + 1)]
    IN  IF Raised(nodes) THEN RecursionError
        ELSE CASE step.rule = "PAREN" -> nodes[1]
               [] step.rule = "SPLIT" -> FoldLeft(KindOf(step.op), nodes, Len(nodes))
               [] step.rule = "WITH" -> WithNode(nodes[1], step.exc)
               [] OTHER -> LeafNode(stripped)

\* _parse_expr(expr) called from outside
_parse_expr(e) == ParseExpr(e, 1)

----------------------------------------------------------------------------
\* The expressions _parse_expr is called on

\* the operators as they are written in an expression
OpWith == <<" ", "W", "I", "T", "H", " ">>
Ids == {<<"A">>, <<"B">>}
Ops == {OpOr, OpAnd, OpWith}

\* the pieces of the unstructured inputs: an identifier, OR in lower case,
\* AND, WITH between blanks and in lower case between tabs, parentheses, a
\* blank
Pieces ==
    { <<"A">>, <<" ", "o", "r", " ">>, OpAnd, OpWith,
      <<"\t", "w", "i", "t", "h", "\t">>, <<"(">>, <<")">>, <<" ">> }

RECURSIVE FlatUpTo(_)
\* every string of at most n pieces, the empty string included
FlatUpTo(n) ==
    IF n = 0 THEN {<<>>}
    ELSE LET shorter == FlatUpTo(n - 1)
         IN  shorter \cup { x \o p : x \in shorter, p \in Pieces }

Flat == FlatUpTo(MaxPieces)

RECURSIVE JoinedBy(_, _)
\* n operands of the set joined by operators
JoinedBy(operands, n) ==
    IF n = 1 THEN operands
    ELSE { x \o o \o y : x \in JoinedBy(operands, n - 1), o \in Ops, y \in operands }

\* chains of up to MaxChain identifiers, as they are and in a pair of
\* parentheses
Chains ==
    LET joined == UNION { JoinedBy(Ids, n) : n \in 1..MaxChain }
    IN  joined \cup { <<"(">> \o x \o <<")">> : x \in joined }

\* operands of the nested expressions: an identifier, bare, parenthesised or
\* with a parenthesis missing, and a parenthesised pair
Operands ==
    { <<"A">>, <<"B">>, <<"(", "A", ")">>, <<"(", "A">>, <<"B", ")">>,
      <<"(", "(", "A", ")">> }
    \cup { <<"(", "A">> \o o \o <<"B", ")">> : o \in Ops }

\* up to MaxOperands operands, as they are and in one more pair of parentheses
Nested ==
    LET joined == UNION { JoinedBy(Operands, n) : n \in 1..MaxOperands }
    IN  joined \cup { <<"(">> \o x \o <<")">> : x \in joined }

\* the expressions the specification and the interface description quote
\* 'A OR B AND C'
Ex_A_OR_B_AND_C ==
    <<"A", " ", "O", "R", " ", "B", " ", "A", "N", "D", " ", "C">>

\* 'A AND B OR C'
Ex_A_AND_B_OR_C ==
    <<"A", " ", "A", "N", "D", " ", "B", " ", "O", "R", " ", "C">>

\* 'A AND B'
Ex_A_AND_B ==
    <<"A", " ", "A", "N", "D", " ", "B">>

\* 'A AND B AND C'
Ex_A_AND_B_AND_C ==
    <<"A", " ", "A", "N", "D", " ", "B", " ", "A", "N", "D", " ", "C">>

\* 'A OR B OR C'
Ex_A_OR_B_OR_C ==
    <<"A", " ", "O", "R", " ", "B", " ", "O", "R", " ", "C">>

\* '(A AND B) OR C'
Ex_pA_AND_Bp_OR_C ==
    <<"(", "A", " ", "A", "N", "D", " ", "B", ")", " ", "O", "R", " ", "C">>

\* '(A) OR (B)'
Ex_pAp_OR_pBp ==
    <<"(", "A", ")", " ", "O", "R", " ", "(", "B", ")">>

\* 'A AND B WITH E'
Ex_A_AND_B_WITH_E ==
    <<"A", " ", "A", "N", "D", " ", "B", " ", "W", "I", "T", "H", " ", "E">>

\* 'A WITH E OR B'
Ex_A_WITH_E_OR_B ==
    <<"A", " ", "W", "I", "T", "H", " ", "E", " ", "O", "R", " ", "B">>

\* 'MIT WITH Exception-1.0'
Ex_MIT_WITH_Exception ==
    <<"M", "I", "T", " ", "W", "I", "T", "H", " ", "E", "x", "c", "e", "p", "t", "i", "o", "n", "-", "1", ".", "0">>

\* 'A WITH B WITH C'
Ex_A_WITH_B_WITH_C ==
    <<"A", " ", "W", "I", "T", "H", " ", "B", " ", "W", "I", "T", "H", " ", "C">>

\* 'A OR (B'
Ex_A_OR_pB ==
    <<"A", " ", "O", "R", " ", "(", "B">>

\* '((A)'
Ex_ppAp ==
    <<"(", "(", "A", ")">>

\* 'MIT AND (Apache-2.0 OR BSD-3-Clause)'
Ex_MIT_AND_pApache_OR_BSDp ==
    <<"M", "I", "T", " ", "A", "N", "D", " ", "(", "A", "p", "a", "c", "h", "e", "-", "2", ".", "0", " ", "O", "R", " ", "B", "S", "D", "-", "3", "-", "C", "l", "a", "u", "s", "e", ")">>

\* 'GPL-2.0 WITH Classpath-exception-2.0'
Ex_GPL_WITH_Classpath ==
    <<"G", "P", "L", "-", "2", ".", "0", " ", "W", "I", "T", "H", " ", "C", "l", "a", "s", "s", "p", "a", "t", "h", "-", "e", "x", "c", "e", "p", "t", "i", "o", "n", "-", "2", ".", "0">>

\* 'others'
Ex_others ==
    <<"o", "t", "h", "e", "r", "s">>

\* 'Apache-2.0 AND MIT'
Ex_Apache_AND_MIT ==
    <<"A", "p", "a", "c", "h", "e", "-", "2", ".", "0", " ", "A", "N", "D", " ", "M", "I", "T">>

Examples ==
    { Ex_A_OR_B_AND_C,
      Ex_A_AND_B_OR_C,
      Ex_A_AND_B,
      Ex_A_AND_B_AND_C,
      Ex_A_OR_B_OR_C,
      Ex_pA_AND_Bp_OR_C,
      Ex_pAp_OR_pBp,
      Ex_A_AND_B_WITH_E,
      Ex_A_WITH_E_OR_B,
      Ex_MIT_WITH_Exception,
      Ex_A_WITH_B_WITH_C,
      Ex_A_OR_pB,
      Ex_ppAp,
      Ex_MIT_AND_pApache_OR_BSDp,
      Ex_GPL_WITH_Classpath,
      Ex_others,
      Ex_Apache_AND_MIT }

Inputs == Flat \cup Chains \cup Nested \cup Examples

----------------------------------------------------------------------------
\* One call of _parse_expr

Init ==
    /\ license_expression \in Inputs
    /\ expr_tree = NoneNode
    /\ pc = "call"
    /\ licenses = <<>>
    /\ missing_licenses = {}
    /\ include_license_headers = TRUE
    /\ result = NoneStr
    /\ NoSession
    /\ NoGenerator

\* the call with its argument put into self.missing_licenses
ParseRecordingArgument ==
    /\ pc = "call"
    /\ expr_tree' = _parse_expr(license_expression)
    /\ pc' = "return"
    /\ missing_licenses' = missing_licenses \cup {license_expression}
    /\ UNCHANGED <<license_expression, licenses, include_license_headers,
                   result>>
    /\ UNCHANGED <<session_vars, generator_vars>>

\* expr_tree = self._parse_expr(license_expression)
Parse ==
    /\ pc = "call"
    /\ expr_tree' = _parse_expr(license_expression)
    /\ pc' = "return"
    /\ UNCHANGED <<license_expression, licenses, missing_licenses,
                   include_license_headers, result>>
    /\ UNCHANGED <<session_vars, generator_vars>>

Next == Parse

Spec == Init /\ [][Next]_vars

----------------------------------------------------------------------------
\* The vocabulary of the properties, defined without the operators of the
\* parser

\* s without its leading and trailing whitespace
Trimmed(s) ==
    LET solid == {i \in 1..Len(s) : ~IsSpace(s[i])}
    IN  IF solid = {} THEN <<>>
        ELSE SubSeq(s, CHOOSE i \in solid : \A j \in solid : i <= j,
                       CHOOSE i \in solid : \A j \in solid : i >= j)

\* the running depth counter after the first i characters of s: the opening
\* minus the closing parentheses among them
DepthAfter(s, i) ==
    Cardinality({j \in 1..i : s[j] = "("}) - Cardinality({j \in 1..i : s[j] = ")"})

\* the word w, in any letter case, is what follows the first i characters of s
OccursAt(s, i, w) ==
    /\ i >= 0
    /\ i + Len(w) <= Len(s)
    /\ \A j \in 1..Len(w) : UpperChar(s[i + j]) = w[j]

\* the operator op (with its blanks) occurs in s where the depth counter is 0
TopLevelOp(s, op) ==
    \E i \in 0..(Len(s) - Len(op)) : OccursAt(s, i, op) /\ DepthAfter(s, i) = 0

\* the trees of the data model
LeafOf(id) ==
    [kind |-> "LEAF", value |-> id, left |-> NoneNode, right |-> NoneNode,
     exception |-> NoneStr]
AndOf(l, r) ==
    [kind |-> "AND", value |-> NoneStr, left |-> l, right |-> r, exception |-> NoneStr]
OrOf(l, r) ==
    [kind |-> "OR", value |-> NoneStr, left |-> l, right |-> r, exception |-> NoneStr]
WithOf(subject, exc) ==
    [kind |-> "WITH", value |-> NoneStr, left |-> subject, right |-> NoneNode,
     exception |-> exc]
BinOf(op, l, r) == IF op = OpOr THEN OrOf(l, r) ELSE AndOf(l, r)

Id_A == <<"A">>
Id_B == <<"B">>
Id_C == <<"C">>
Id_E == <<"E">>

\* s is u in one pair of parentheses, blanks allowed inside
WrapOf(s, u) ==
    /\ Len(s) >= 2
    /\ s[1] = "("
    /\ s[Len(s)] = ")"
    /\ Trimmed(SubSeq(s, 2, Len(s) - 1)) = u

----------------------------------------------------------------------------
\* C1  Splitting on OR comes before splitting on AND

\* C1: once _parse_expr has returned, an expression that has both " OR " and
\* " AND " where the depth counter is 0 has an OR node as the root of its tree;
\* so has an expression that is such an expression in one pair of parentheses
\* (one recursion level down); 'A OR B AND C' gives Or(A, And(B, C)) and
\* 'A AND B OR C' gives Or(And(A, B), C).
C1_OrSplitFirst ==
    pc = "return" =>
        LET t == Trimmed(license_expression)
            u == Trimmed(SubSeq(t, 2, Len(t) - 1))
        IN  /\ (TopLevelOp(t, OpOr) /\ TopLevelOp(t, OpAnd)) => expr_tree.kind = "OR"
            /\ (WrapOf(t, u) /\ DepthAfter(u, Len(u)) = 0
                  /\ TopLevelOp(u, OpOr) /\ TopLevelOp(u, OpAnd)
                  /\ \A i \in 0..Len(u) : DepthAfter(u, i) >= 0)
                  => expr_tree.kind = "OR"
            /\ license_expression = Ex_A_OR_B_AND_C
                  => expr_tree = OrOf(LeafOf(Id_A), AndOf(LeafOf(Id_B), LeafOf(Id_C)))
            /\ license_expression = Ex_A_AND_B_OR_C
                  => expr_tree = OrOf(AndOf(LeafOf(Id_A), LeafOf(Id_B)), LeafOf(Id_C))

\* an expression with both operators at depth 0, AND first, has been parsed
\* into an OR node over an AND node
C1_Witness ==
    /\ pc = "return"
    /\ license_expression = Ex_A_AND_B_OR_C
    /\ TopLevelOp(license_expression, OpOr)
    /\ TopLevelOp(license_expression, OpAnd)
    /\ expr_tree.kind = "OR"
    /\ expr_tree.left.kind = "AND"

----------------------------------------------------------------------------
\* C2  Chains fold to the left

RECURSIVE JoinWith(_, _, _)
\* the first n strings of xs with op between them
JoinWith(xs, op, n) ==
    IF n = 1 THEN xs[1] ELSE JoinWith(xs, op, n - 1) \o op \o xs[n]

RECURSIVE LeftNested(_, _, _)
\* the first n trees of ts under op, nested to the left
LeftNested(op, ts, n) ==
    IF n = 1 THEN ts[1] ELSE BinOf(op, LeftNested(op, ts, n - 1), ts[n])

\* the chains of identifiers with one operator, each with the tree of the
\* data model for it
IdChainCases ==
    { [s |-> JoinWith(ids, op, Len(ids)),
       t |-> LeftNested(op, [k \in 1..Len(ids) |-> LeafOf(ids[k])], Len(ids))] :
      ids \in UNION { [1..n -> Ids] : n \in 2..MaxChain }, op \in {OpOr, OpAnd} }

\* operands that are whole: an identifier or a balanced parenthesised text
WholeOperands ==
    { <<"A">>, <<"B">>, <<"(", "A", ")">> }
    \cup { <<"(", "A">> \o o \o <<"B", ")">> : o \in Ops }

\* the chains of whole operands with one operator, each with the left-nested
\* tree over the parses of its operands
OperandChainCases ==
    { [s |-> JoinWith(xs, op, Len(xs)),
       t |-> LeftNested(op, [k \in 1..Len(xs) |-> _parse_expr(xs[k])], Len(xs))] :
      xs \in UNION { [1..n -> WholeOperands] : n \in 2..MaxOperands },
      op \in {OpOr, OpAnd} }

ChainCases == IdChainCases \cup OperandChainCases

\* C2: once _parse_expr has returned, a chain of n >= 2 operands joined by one
\* operator (AND, or OR) has the left-nested tree over its operands, in their
\* source order: And(And(A, B), C) for 'A AND B AND C'.
C2_LeftFold ==
    pc = "return" =>
        /\ \A c \in ChainCases : license_expression = c.s => expr_tree = c.t
        /\ license_expression = Ex_A_AND_B
              => expr_tree = AndOf(LeafOf(Id_A), LeafOf(Id_B))
        /\ license_expression = Ex_A_AND_B_AND_C
              => expr_tree = AndOf(AndOf(LeafOf(Id_A), LeafOf(Id_B)), LeafOf(Id_C))
        /\ license_expression = Ex_A_OR_B_OR_C
              => expr_tree = OrOf(OrOf(LeafOf(Id_A), LeafOf(Id_B)), LeafOf(Id_C))

\* a chain of three operands has been parsed into a tree nested to the left
C2_Witness ==
    /\ pc = "return"
    /\ \E c \in ChainCases : license_expression = c.s
    /\ expr_tree.kind = "AND"
    /\ expr_tree.left.kind = "AND"
    /\ expr_tree.right.kind = "LEAF"
    /\ expr_tree.left.left.value # expr_tree.left.right.value

----------------------------------------------------------------------------
\* C3  No split inside parentheses

\* s starts with "(" and ends with ")"
InParens(s) == Len(s) >= 2 /\ s[1] = "(" /\ s[Len(s)] = ")"

\* C3: for OR and for AND, every place at which split_top cuts the trimmed
\* expression is an occurrence of the operator (in any letter case) at which
\* the running depth counter is 0; an expression whose operators all occur
\* at another depth, and which is not in parentheses as a whole, gets no AND
\* or OR node as its root; '(A AND B) OR C' gives Or(And(A, B), C).
C3_SplitOnlyAtDepthZero ==
    pc = "return" =>
        LET t == Trimmed(license_expression)
        IN  /\ \A op \in {OpOr, OpAnd} :
                  LET segs == SplitSegments(t, op)
                  IN  \A k \in 1..Len(segs) :
                          segs[k][2] < Len(t) =>
                              /\ OccursAt(t, segs[k][2], op)
                              /\ DepthAfter(t, segs[k][2]) = 0
            /\ (~TopLevelOp(t, OpOr) /\ ~TopLevelOp(t, OpAnd) /\ ~InParens(t))
                  => expr_tree.kind \notin {"AND", "OR"}
            /\ license_expression = Ex_pA_AND_Bp_OR_C
                  => expr_tree = OrOf(AndOf(LeafOf(Id_A), LeafOf(Id_B)), LeafOf(Id_C))

\* an expression with an operator inside parentheses and another one outside
\* has been split at the one outside only
C3_Witness ==
    /\ pc = "return"
    /\ \E i \in 0..Len(license_expression) :
          /\ OccursAt(license_expression, i, OpAnd)
          /\ DepthAfter(license_expression, i) = 1
    /\ TopLevelOp(license_expression, OpOr)
    /\ Len(SplitSegments(license_expression, OpOr)) = 2
    /\ Len(SplitSegments(license_expression, OpAnd)) = 1
    /\ expr_tree.kind = "OR"
    /\ expr_tree.left.kind = "AND"

----------------------------------------------------------------------------
\* C4  Stripping the outer parentheses

\* s is wrapped in one matching pair of parentheses: the depth counter is
\* back at 0 after the last character and after no earlier one
MatchedOuterPair(s) ==
    /\ InParens(s)
    /\ DepthAfter(s, Len(s)) = 0
    /\ \A i \in 1..(Len(s) - 1) : DepthAfter(s, i) # 0

\* C4: _parse_expr strips the outer parentheses of the trimmed expression and
\* recurses on the interior if and only if the expression is wrapped in one
\* matching pair; the tree of a wrapped expression is the tree of its
\* interior.
C4_StripIffMatchedPair ==
    pc = "return" =>
        LET t == Trimmed(license_expression)
        IN  /\ Step(t).rule = "PAREN" <=> MatchedOuterPair(t)
            /\ MatchedOuterPair(t)
                  => expr_tree = _parse_expr(SubSeq(t, 2, Len(t) - 1))

----------------------------------------------------------------------------
\* C5  WITH binds tighter than AND and OR

\* the operator op occurs in s, at any depth
HasOp(s, op) == \E i \in 0..(Len(s) - Len(op)) : OccursAt(s, i, op)

RECURSIVE WithsAreLocal(_)
\* every WITH node of the tree has a leaf as its subject and an exception
\* that holds neither " OR " nor " AND "
WithsAreLocal(n) ==
    CASE n.kind = "WITH" ->
            /\ n.left.kind = "LEAF"
            /\ ~HasOp(n.exception, OpOr)
            /\ ~HasOp(n.exception, OpAnd)
      [] n.kind \in {"AND", "OR"} -> WithsAreLocal(n.left) /\ WithsAreLocal(n.right)
      [] OTHER -> TRUE

\* C5: an expression with " OR " or " AND " at depth 0 gets an AND or OR node
\* as its root, so a WITH node is the root only when there is no such
\* operator; in an expression without parentheses every WITH node wraps one
\* identifier and its exception takes in no AND or OR; 'A AND B WITH E' gives
\* And(A, With(B, 'E')) and 'A WITH E OR B' gives Or(With(A, 'E'), B).
C5_WithAfterSplit ==
    pc = "return" =>
        LET t == Trimmed(license_expression)
        IN  /\ (TopLevelOp(t, OpOr) \/ TopLevelOp(t, OpAnd))
                  => expr_tree.kind \in {"AND", "OR"}
            /\ (~HasOp(t, <<"(">>) /\ ~HasOp(t, <<")">>)) => WithsAreLocal(expr_tree)
            /\ license_expression = Ex_A_AND_B_WITH_E
                  => expr_tree = AndOf(LeafOf(Id_A), WithOf(LeafOf(Id_B), Id_E))
            /\ license_expression = Ex_A_WITH_E_OR_B
                  => expr_tree = OrOf(WithOf(LeafOf(Id_A), Id_E), LeafOf(Id_B))

\* an expression with a WITH after an AND at depth 0 has been parsed into an
\* AND node whose right operand is the WITH node
C5_Witness ==
    /\ pc = "return"
    /\ TopLevelOp(license_expression, OpAnd)
    /\ HasOp(license_expression, OpWith)
    /\ expr_tree.kind = "AND"
    /\ expr_tree.left.kind = "LEAF"
    /\ expr_tree.right.kind = "WITH"

----------------------------------------------------------------------------
\* C6  The WITH clause

\* the places of s at which WITH (in any letter case) stands between two
\* whitespace characters, each as the number of characters before the W
DelimitedWiths(s) ==
    { i \in 1..(Len(s) - 5) :
        /\ IsSpace(s[i])
        /\ OccursAt(s, i, Word_WITH)
        /\ IsSpace(s[i + 5]) }

\* the first of them
FirstWith(s) ==
    CHOOSE i \in DelimitedWiths(s) : \A j \in DelimitedWiths(s) : i <= j

\* the With node the rule describes: the parse of the text before the first
\* WITH, and the trimmed text after it as the exception
WithTreeFor(s) ==
    WithOf(_parse_expr(SubSeq(s, 1, FirstWith(s))),
           Trimmed(SubSeq(s, FirstWith(s) + 5, Len(s))))

\* _parse_expr takes s for wrapped in parentheses: s is in parentheses and the
\* depth counter is not 0 before the last character
TakenForWrapped(s) ==
    InParens(s) /\ \A i \in 1..(Len(s) - 1) : DepthAfter(s, i) # 0

\* C6 as stated: every expression without " OR " and " AND " at depth 0 that
\* holds a whitespace-delimited WITH gets the With node over the text before
\* the first WITH and the text after it.
C6_WithNode_AsStated ==
    pc = "return" =>
        LET t == Trimmed(license_expression)
        IN  (~TopLevelOp(t, OpOr) /\ ~TopLevelOp(t, OpAnd) /\ DelimitedWiths(t) # {})
                => expr_tree = WithTreeFor(t)

\* C6: an expression that _parse_expr does not take for wrapped in
\* parentheses, without " OR " and " AND " at depth 0 and with a
\* whitespace-delimited WITH (any letter case), gets the With node whose
\* subject is the parse of the text before the first WITH and whose exception
\* is the whole trimmed text after it, unparsed; 'MIT WITH Exception-1.0'
\* gives With(Leaf(MIT), 'Exception-1.0') and 'A WITH B WITH C' gives
\* With(Leaf(A), 'B WITH C').
C6_WithNode ==
    pc = "return" =>
        LET t == Trimmed(license_expression)
        IN  /\ (/\ ~TakenForWrapped(t)
                /\ ~TopLevelOp(t, OpOr)
                /\ ~TopLevelOp(t, OpAnd)
                /\ DelimitedWiths(t) # {})
                  => expr_tree = WithTreeFor(t)
            /\ license_expression = Ex_MIT_WITH_Exception
                  => expr_tree =
                       WithOf(LeafOf(<<"M", "I", "T">>),
                              <<"E", "x", "c", "e", "p", "t", "i", "o", "n", "-",
                                "1", ".", "0">>)
            /\ license_expression = Ex_A_WITH_B_WITH_C
                  => expr_tree =
                       WithOf(LeafOf(Id_A), <<"B", " ", "W", "I", "T", "H", " ", "C">>)

\* an expression with two WITHs has been parsed into a With node whose
\* exception holds the second one
C6_Witness ==
    /\ pc = "return"
    /\ Cardinality(DelimitedWiths(license_expression)) = 2
    /\ ~TakenForWrapped(license_expression)
    /\ expr_tree.kind = "WITH"
    /\ expr_tree.left.kind = "LEAF"
    /\ DelimitedWiths(expr_tree.exception) # {}

----------------------------------------------------------------------------
\* C7  Plain identifiers

\* the word w, in any letter case, is a whitespace-delimited word of s
HasWord(s, w) ==
    \E i \in 0..(Len(s) - Len(w)) :
        /\ OccursAt(s, i, w)
        /\ (i = 0 \/ IsSpace(s[i]))
        /\ (i + Len(w) = Len(s) \/ IsSpace(s[i + Len(w) + 1]))

\* s has no parenthesis and none of the words AND, OR, WITH
Plain(s) ==
    /\ \A i \in 1..Len(s) : s[i] \notin {"(", ")"}
    /\ ~HasWord(s, <<"A", "N", "D">>)
    /\ ~HasWord(s, <<"O", "R">>)
    /\ ~HasWord(s, <<"W", "I", "T", "H">>)

\* C7: a non-blank expression without parentheses and without the operators
\* AND, OR, WITH gets a single LEAF node whose value is the expression with
\* its leading and trailing whitespace removed.
C7_PlainIsLeaf ==
    pc = "return" =>
        LET t == Trimmed(license_expression)
        IN  (t # <<>> /\ Plain(t)) => expr_tree = LeafOf(t)

\* a plain expression with whitespace around it has been parsed
C7_Witness ==
    /\ pc = "return"
    /\ Len(license_expression) >= 1
    /\ Plain(license_expression)
    /\ IsSpace(license_expression[1])
    /\ IsSpace(license_expression[Len(license_expression)])
    /\ Len(Trimmed(license_expression)) >= 2
    /\ expr_tree = LeafOf(Trimmed(license_expression))

----------------------------------------------------------------------------
\* C8  _parse_expr returns for every input

RECURSIVE CallsShrink(_)
\* every call _parse_expr makes on itself while it parses e, at any depth, is
\* on a string shorter than the stripped argument of the calling one
CallsShrink(e) ==
    LET stripped == Strip(e)
        args == Step(stripped).args
    IN  \A k \in 1..Len(args) :
            Len(args[k]) < Len(stripped) /\ CallsShrink(args[k])

\* the parentheses of s do not match
Unbalanced(s) ==
    \/ DepthAfter(s, Len(s)) # 0
    \/ \E i \in 1..Len(s) : DepthAfter(s, i) < 0

----------------------------------------------------------------------------
\* C9  Malformed expressions

\* C9: an expression whose parentheses do not match gets a single LEAF node
\* whose value is the whole trimmed expression.
C9_MalformedIsLeaf ==
    pc = "return" =>
        LET t == Trimmed(license_expression)
        IN  Unbalanced(t) => expr_tree = LeafOf(t)

----------------------------------------------------------------------------
\* C10  Well-formed trees

RECURSIVE WellFormed(_)
\* n is a LEAF with a string value and no children, a WITH with a subject
\* and an exception string, or an AND or OR with two children, and so are
\* its children
WellFormed(n) ==
    CASE n.kind = "LEAF" ->
            /\ n.value # NoneStr
            /\ n.left = NoneNode
            /\ n.right = NoneNode
      [] n.kind = "WITH" ->
            /\ n.left # NoneNode
            /\ n.exception # NoneStr
            /\ WellFormed(n.left)
      [] n.kind \in {"AND", "OR"} ->
            /\ n.left # NoneNode
            /\ n.right # NoneNode
            /\ WellFormed(n.left)
            /\ WellFormed(n.right)
      [] OTHER -> FALSE

\* C10: every node of the tree _parse_expr returns is well formed.
C10_WellFormed == pc = "return" => WellFormed(expr_tree)

\* a tree with nodes of all four kinds has been returned
C10_Witness ==
    /\ pc = "return"
    /\ expr_tree.kind = "OR"
    /\ expr_tree.left.kind = "AND"
    /\ expr_tree.right.kind = "WITH"
    /\ expr_tree.right.left.kind = "LEAF"
    /\ WellFormed(expr_tree)

----------------------------------------------------------------------------
\* The renderer: LicenseManager.get_license_text and what it calls

\* str.lower() on the upper-case letters
ToLower ==
    [c \in {UpperCase[i] : i \in 1..Len(UpperCase)} |->
        LowerCase[CHOOSE i \in 1..Len(UpperCase) : UpperCase[i] = c]]

\* one character of str.lower()
LowerChar(c) == IF c \in DOMAIN ToLower THEN ToLower[c] ELSE c

\* str.lower()
Lower(s) == [i \in 1..Len(s) |-> LowerChar(s[i])]

\* '-' * n
Dashes(n) == [i \in 1..n |-> "-"]

\* "\n"
NL == <<"\n">>

\* the default of license_config_path, as str(Path(...)) prints it
license_config_path == <<"l", "i", "c", "e", "n", "s", "e", "s", ".", "y", "a", "m", "l">>

\* the keys of the YAML mapping as written, the table with them unchanged
LoadLicensesKeysAsWritten(config) == config

\* _load_licenses: the YAML mapping with every key lowercased; a missing or
\* invalid file gives the empty table
_load_licenses(config) ==
    [k \in {Lower(j) : j \in DOMAIN config} |->
        config[CHOOSE j \in DOMAIN config : Lower(j) = k]]

\* "others"
Str_others == <<"o", "t", "h", "e", "r", "s">>

\* "others_definition"
Key_others_definition == <<"o", "t", "h", "e", "r", "s", "_", "d", "e", "f", "i", "n", "i", "t", "i", "o", "n">>

\* the default of self.licenses.get("others_definition", ...)
OthersDefault ==
    <<"[", "T", "h", "i", "s", " ", "c", "o", "m", "p", "o", "n", "e", "n", "t", " ", "i", "s", " ", "s", "u", "b", "j", "e", "c", "t", " ", "t", "o", " ", "a", "d", "d", "i", "t", "i", "o", "n", "a", "l", " ", "t", "e", "r", "m", "s", " ", "o", "r", " ", "c", "o", "n", "d", "i", "t", "i", "o", "n", "s", ",", " ", "o", "f", "t", "e", "n", " ", "s", "p", "e", "c", "i", "f", "i", "e", "d", " ", "b", "y", " ", "t", "h", "e", " ", "c", "o", "p", "y", "r", "i", "g", "h", "t", " ", "h", "o", "l", "d", "e", "r", " ", "o", "r", " ", "i", "n", " ", "a", "c", "c", "o", "m", "p", "a", "n", "y", "i", "n", "g", " ", "n", "o", "t", "i", "c", "e", "s", ".", " ", "T", "h", "e", "s", "e", " ", "'", "o", "t", "h", "e", "r", "'", " ", "t", "e", "r", "m", "s", " ", "s", "h", "o", "u", "l", "d", " ", "b", "e", " ", "d", "e", "t", "a", "i", "l", "e", "d", " ", "h", "e", "r", "e", ",", " ", "i", "n", " ", "a", " ", "r", "e", "f", "e", "r", "e", "n", "c", "e", "d", " ", "d", "o", "c", "u", "m", "e", "n", "t", ",", " ", "o", "r", " ", "b", "y", " ", "d", "e", "f", "i", "n", "i", "n", "g", " ", "'", "O", "T", "H", "E", "R", "S", "_", "D", "E", "F", "I", "N", "I", "T", "I", "O", "N", "'", " ", "i", "n", " ", "y", "o", "u", "r", " ", "l", "i", "c", "e", "n", "s", "e", "s", ".", "y", "a", "m", "l", ".", " ", "S", "p", "e", "c", "i", "f", "i", "c", " ", "U", "R", "L", "s", " ", "m", "a", "y", " ", "b", "e", " ", "l", "i", "s", "t", "e", "d", " ", "w", "i", "t", "h", " ", "c", "o", "m", "p", "o", "n", "e", "n", "t", "s", " ", "b", "e", "l", "o", "w", ".", "]">>

\* lic_id == "others", the letter case of the id taken as it is
IsOthersExact(lic_id) == lic_id = Str_others

\* lic_id.lower() == "others"
IsOthers(lic_id) == Lower(lic_id) = Str_others

\* f"For license: {lic_id}"
HeaderFor(lic_id) == <<"F", "o", "r", " ", "l", "i", "c", "e", "n", "s", "e", ":", " ">> \o lic_id

\* f"Regarding '{lic_id}' conditions:"
HeaderOthers(lic_id) == <<"R", "e", "g", "a", "r", "d", "i", "n", "g", " ", "'">> \o lic_id \o <<"'", " ", "c", "o", "n", "d", "i", "t", "i", "o", "n", "s", ":">>

\* f"ERROR: License text for '{lic_id}' not found in '{...}'. Please add ..."
ErrorText(lic_id) ==
    <<"E", "R", "R", "O", "R", ":", " ", "L", "i", "c", "e", "n", "s", "e", " ", "t", "e", "x", "t", " ", "f", "o", "r", " ", "'">> \o lic_id
        \o <<"'", " ", "n", "o", "t", " ", "f", "o", "u", "n", "d", " ", "i", "n", " ", "'">> \o license_config_path
        \o <<"'", ".", " ", "P", "l", "e", "a", "s", "e", " ", "a", "d", "d", " ", "t", "h", "e", " ", "f", "u", "l", "l", " ", "t", "e", "x", "t", " ", "f", "o", "r", " ", "t", "h", "i", "s", " ", "l", "i", "c", "e", "n", "s", "e", ".">>

\* _get_individual_license_text recording the lowercased id on a miss
GetIndividualRecordingLowered(lic_id, include_header) ==
    LET header == IF include_header THEN HeaderFor(lic_id) ELSE <<>>
    IN  IF IsOthers(lic_id)
        THEN [header |-> HeaderOthers(lic_id),
              text |-> IF Key_others_definition \in DOMAIN licenses
                       THEN licenses[Key_others_definition]
                       ELSE OthersDefault,
              added |-> {}]
        ELSE IF Lower(lic_id) \in DOMAIN licenses
             THEN [header |-> header, text |-> licenses[Lower(lic_id)],
                   added |-> {}]
             ELSE [header |-> header, text |-> ErrorText(lic_id),
                   added |-> {Lower(lic_id)}]

\* _get_individual_license_text putting every id it looks up in the table on
\* record
GetIndividualRecordingEveryId(lic_id, include_header) ==
    LET header == IF include_header THEN HeaderFor(lic_id) ELSE <<>>
    IN  IF IsOthers(lic_id)
        THEN [header |-> HeaderOthers(lic_id),
              text |-> IF Key_others_definition \in DOMAIN licenses
                       THEN licenses[Key_others_definition]
                       ELSE OthersDefault,
              added |-> {}]
        ELSE IF Lower(lic_id) \in DOMAIN licenses
             THEN [header |-> header, text |-> licenses[Lower(lic_id)],
                   added |-> {lic_id}]
             ELSE [header |-> header, text |-> ErrorText(lic_id),
                   added |-> {lic_id}]

\* _get_individual_license_text answering a miss with the placeholder only
\* while the id is not yet in self.missing_licenses
GetIndividualReportingOnce(lic_id, include_header) ==
    LET header == IF include_header THEN HeaderFor(lic_id) ELSE <<>>
    IN  IF IsOthers(lic_id)
        THEN [header |-> HeaderOthers(lic_id),
              text |-> IF Key_others_definition \in DOMAIN licenses
                       THEN licenses[Key_others_definition]
                       ELSE OthersDefault,
              added |-> {}]
        ELSE IF Lower(lic_id) \in DOMAIN licenses
             THEN [header |-> header, text |-> licenses[Lower(lic_id)],
                   added |-> {}]
             ELSE [header |-> header,
                   text |-> IF lic_id \in missing_licenses
                            THEN <<>> ELSE ErrorText(lic_id),
                   added |-> {lic_id}]

\* _get_individual_license_text(lic_id, include_header): the pair
\* (header, text) it returns, and in added the ids it adds to
\* self.missing_licenses
_get_individual_license_text(lic_id, include_header) ==
    LET header == IF include_header THEN HeaderFor(lic_id) ELSE <<>>
    IN  IF IsOthers(lic_id)
        THEN [header |-> HeaderOthers(lic_id),
              text |-> IF Key_others_definition \in DOMAIN licenses
                       THEN licenses[Key_others_definition]
                       ELSE OthersDefault,
              added |-> {}]
        ELSE IF Lower(lic_id) \in DOMAIN licenses
             THEN [header |-> header, text |-> licenses[Lower(lic_id)],
                   added |-> {}]
             ELSE [header |-> header, text |-> ErrorText(lic_id),
                   added |-> {lic_id}]

\* the LEAF branch of render with a divider of a fixed length
RenderLeafFixedDivider(header, text) ==
    IF Strip(text) = <<>> THEN <<>>
    ELSE IF header # <<>>
         THEN header \o NL \o <<"-", "-", "-", "-", "-", "-", "-", "-", "-", "-", "-", "-", "-", "-", "-", "-", "-", "-", "-", "-">> \o NL \o text
         ELSE text

\* the LEAF branch of render: a blank text is skipped, the header and its
\* divider are written when there is a header
RenderLeaf(header, text) ==
    IF Strip(text) = <<>> THEN <<>>
    ELSE IF header # <<>>
         THEN header \o NL \o Dashes(Len(header)) \o NL \o text
         ELSE text

\* the WITH branch of render without the header of the exception
RenderWithNoHeader(main_text, exc_header, exc_text) ==
    main_text
        \o <<"\n", "\n", "-", "-", "-", "-", "-", "-", "-", "-", "-", "-", "-", "-", "-", "-", "-", "-", "-", "-", "-", "-", "\n", "W", "i", "t", "h", " ", "t", "h", "e", " ", "f", "o", "l", "l", "o", "w", "i", "n", "g", " ", "e", "x", "c", "e", "p", "t", "i", "o", "n", "(", "s", ")", ":", "\n", "-", "-", "-", "-", "-", "-", "-", "-", "-", "-", "-", "-", "-", "-", "-", "-", "-", "-", "-", "-", "\n", "\n">>
        \o exc_text

\* the WITH branch of render
RenderWith(main_text, exc_header, exc_text) ==
    main_text
        \o <<"\n", "\n", "-", "-", "-", "-", "-", "-", "-", "-", "-", "-", "-", "-", "-", "-", "-", "-", "-", "-", "-", "-", "\n", "W", "i", "t", "h", " ", "t", "h", "e", " ", "f", "o", "l", "l", "o", "w", "i", "n", "g", " ", "e", "x", "c", "e", "p", "t", "i", "o", "n", "(", "s", ")", ":", "\n", "-", "-", "-", "-", "-", "-", "-", "-", "-", "-", "-", "-", "-", "-", "-", "-", "-", "-", "-", "-", "\n", "\n">>
        \o <<"E", "x", "c", "e", "p", "t", "i", "o", "n", ":", " ">> \o exc_header \o NL
        \o Dashes(Len(exc_header) + 11) \o NL
        \o exc_text

\* op_str
OpStr(op) == IF op = "AND" THEN <<"A", "n", "d", " ", "a", "l", "s", "o">> ELSE <<"O", "r">>

\* the AND/OR branch of render with the right operand first
RenderOpRightFirst(op, left, right) ==
    right
        \o <<"\n", "\n", "-", "-", "-", "-", "-", "-", "-", "-", "-", "-", "-", "-", "-", "-", "-", "-", "-", "-", "-", "-", "\n">> \o OpStr(op)
        \o <<":", "\n", "-", "-", "-", "-", "-", "-", "-", "-", "-", "-", "-", "-", "-", "-", "-", "-", "-", "-", "-", "-", "\n", "\n">>
        \o left

\* the AND/OR branch of render
RenderOp(op, left, right) ==
    left
        \o <<"\n", "\n", "-", "-", "-", "-", "-", "-", "-", "-", "-", "-", "-", "-", "-", "-", "-", "-", "-", "-", "-", "-", "\n">> \o OpStr(op)
        \o <<":", "\n", "-", "-", "-", "-", "-", "-", "-", "-", "-", "-", "-", "-", "-", "-", "-", "-", "-", "-", "-", "-", "\n", "\n">>
        \o right

RECURSIVE render(_, _)

\* render with the lookup of a WITH exception kept off the record
RenderExceptionsUnrecorded(node, include_headers) ==
    IF node.kind = "LEAF"
    THEN LET got == _get_individual_license_text(node.value, include_headers)
         IN  [text |-> RenderLeaf(got.header, got.text), added |-> got.added]
    ELSE IF node.kind = "WITH"
    THEN LET main == render(node.left, include_headers)
             exc == _get_individual_license_text(node.exception, TRUE)
         IN  [text |-> RenderWith(main.text, exc.header, exc.text),
              added |-> main.added]
    ELSE IF node.kind = "AND" \/ node.kind = "OR"
    THEN LET left == render(node.left, include_headers)
             right == render(node.right, include_headers)
         IN  [text |-> RenderOp(node.kind, left.text, right.text),
              added |-> left.added \cup right.added]
    ELSE [text |-> <<>>, added |-> {}]

\* render(node): the text, and in added the ids the lookups add to
\* self.missing_licenses
render(node, include_headers) ==
    IF node.kind = "LEAF"
    THEN LET got == _get_individual_license_text(node.value, include_headers)
         IN  [text |-> RenderLeaf(got.header, got.text), added |-> got.added]
    ELSE IF node.kind = "WITH"
    THEN LET main == render(node.left, include_headers)
             exc == _get_individual_license_text(node.exception, TRUE)
         IN  [text |-> RenderWith(main.text, exc.header, exc.text),
              added |-> main.added \cup exc.added]
    ELSE IF node.kind = "AND" \/ node.kind = "OR"
    THEN LET left == render(node.left, include_headers)
             right == render(node.right, include_headers)
         IN  [text |-> RenderOp(node.kind, left.text, right.text),
              added |-> left.added \cup right.added]
    ELSE [text |-> <<>>, added |-> {}]

\* the intro phrase written only for an opening parenthesis
IntroPhraseOpeningOnly(expr) ==
    IF \E i \in 1..Len(expr) : expr[i] = "("
    THEN <<"T", "h", "i", "s", " ", "c", "o", "m", "p", "o", "n", "e", "n", "t", " ", "i", "s", " ", "s", "u", "b", "j", "e", "c", "t", " ", "t", "o", " ", "a", " ", "c", "o", "m", "p", "l", "e", "x", " ", "l", "i", "c", "e", "n", "s", "e", " ", "e", "x", "p", "r", "e", "s", "s", "i", "o", "n", " ", "(">>
            \o expr
            \o <<")", ".", " ", "P", "l", "e", "a", "s", "e", " ", "r", "e", "v", "i", "e", "w", " ", "a", "l", "l", " ", "a", "p", "p", "l", "i", "c", "a", "b", "l", "e", " ", "t", "e", "r", "m", "s", " ", "c", "a", "r", "e", "f", "u", "l", "l", "y", ":", "\n", "\n">>
    ELSE <<>>

\* intro_phrase
IntroPhrase(expr) ==
    IF \E i \in 1..Len(expr) : expr[i] = "(" \/ expr[i] = ")"
    THEN <<"T", "h", "i", "s", " ", "c", "o", "m", "p", "o", "n", "e", "n", "t", " ", "i", "s", " ", "s", "u", "b", "j", "e", "c", "t", " ", "t", "o", " ", "a", " ", "c", "o", "m", "p", "l", "e", "x", " ", "l", "i", "c", "e", "n", "s", "e", " ", "e", "x", "p", "r", "e", "s", "s", "i", "o", "n", " ", "(">>
            \o expr
            \o <<")", ".", " ", "P", "l", "e", "a", "s", "e", " ", "r", "e", "v", "i", "e", "w", " ", "a", "l", "l", " ", "a", "p", "p", "l", "i", "c", "a", "b", "l", "e", " ", "t", "e", "r", "m", "s", " ", "c", "a", "r", "e", "f", "u", "l", "l", "y", ":", "\n", "\n">>
    ELSE <<>>

\* the test of the first lines with no strip()
NotProvidedNoStrip(expr) == expr = NoneStr \/ expr = <<>>

\* not license_expression or not license_expression.strip()
NotProvided(expr) == expr = NoneStr \/ expr = <<>> \/ Strip(expr) = <<>>

\* "License information not provided for this component."
Text_NotProvided ==
    <<"L", "i", "c", "e", "n", "s", "e", " ", "i", "n", "f", "o", "r", "m", "a", "t", "i", "o", "n", " ", "n", "o", "t", " ", "p", "r", "o", "v", "i", "d", "e", "d", " ", "f", "o", "r", " ", "t", "h", "i", "s", " ", "c", "o", "m", "p", "o", "n", "e", "n", "t", ".">>

----------------------------------------------------------------------------
\* Bounds of the calls of get_license_text

\* most identifiers of an expression (see RenderChains)
MaxRenderIds == 2

----------------------------------------------------------------------------
\* Lookup tables and expressions of the calls of get_license_text

\* 'MIT'
Id_MIT == <<"M", "I", "T">>

\* 'mit'
Id_mit == <<"m", "i", "t">>

\* 'Apache-2.0'
Id_Apache == <<"A", "p", "a", "c", "h", "e", "-", "2", ".", "0">>

\* an identifier no table has
Id_Gpl == <<"G", "p", "l">>

\* 'others' in another letter case
Id_OTHERS == <<"O", "T", "H", "E", "R", "S">>

\* an identifier whose text in the tables is blank
Id_Nil == <<"N", "i", "l">>

\* license texts of the tables
Text_MIT == <<"P", "e", "r", "m", "i", "s", "s", "i", "o", "n", " ", "i", "s", " ", "g", "r", "a", "n", "t", "e", "d", ".">>

Text_Apache == <<"L", "i", "c", "e", "n", "s", "e", "d", " ", "u", "n", "d", "e", "r", " ", "A", "p", "a", "c", "h", "e", ".">>

Text_Blank == <<" ">>

Text_Others == <<"S", "e", "e", " ", "t", "h", "e", " ", "n", "o", "t", "i", "c", "e", "s", ".">>

\* a licenses.yaml with an OTHERS_DEFINITION entry
Config_Full ==
    (Id_MIT :> Text_MIT) @@ (Id_Apache :> Text_Apache) @@ (Id_Nil :> Text_Blank)
        @@ (Upper(Key_others_definition) :> Text_Others)

\* a licenses.yaml without it
Config_NoOthers ==
    (Id_MIT :> Text_MIT) @@ (Id_Apache :> Text_Apache) @@ (Id_Nil :> Text_Blank)

\* no licenses.yaml, or one that is not a mapping: _load_licenses returns {}
Config_None == <<>>

Configs == {Config_Full, Config_NoOthers, Config_None}

\* the identifiers a generated expression starts with
RenderIds == {Id_MIT, Id_mit, Id_Gpl, Str_others, Id_OTHERS, Id_Nil}

\* the identifiers it goes on with
TailIds == {Id_mit, Id_Gpl, Id_OTHERS}

\* n identifiers joined by operators, in every combination
RECURSIVE RenderChainsOf(_)
RenderChainsOf(n) ==
    IF n = 1 THEN RenderIds
    ELSE {c \o op \o i : c \in RenderChainsOf(n - 1), op \in Ops, i \in TailIds}

RenderChains == UNION {RenderChainsOf(n) : n \in 1..MaxRenderIds}

\* the same in one pair of parentheses
RenderWrapped == {<<"(">> \o c \o <<")">> : c \in RenderChains}

\* expressions get_license_text takes for absent: None, '', blanks
RenderBlank == {NoneStr, <<>>, <<" ">>, <<"\t", " ">>}

\* 'Apache-2.0 AND MIT'
Rx_Apache_AND_MIT == <<"A", "p", "a", "c", "h", "e", "-", "2", ".", "0", " ", "A", "N", "D", " ", "M", "I", "T">>

\* 'MIT AND Apache-2.0'
Rx_MIT_AND_Apache == <<"M", "I", "T", " ", "A", "N", "D", " ", "A", "p", "a", "c", "h", "e", "-", "2", ".", "0">>

\* 'MIT AND (Apache-2.0 OR Gpl)'
Rx_MIT_AND_pApache_OR_Gplp == <<"M", "I", "T", " ", "A", "N", "D", " ", "(", "A", "p", "a", "c", "h", "e", "-", "2", ".", "0", " ", "O", "R", " ", "G", "p", "l", ")">>

\* 'Gpl WITH Apache-2.0 OR MIT'
Rx_Gpl_WITH_Apache_OR_MIT == <<"G", "p", "l", " ", "W", "I", "T", "H", " ", "A", "p", "a", "c", "h", "e", "-", "2", ".", "0", " ", "O", "R", " ", "M", "I", "T">>

\* '(MIT OR Gpl) WITH OTHERS'
Rx_pMIT_OR_Gplp_WITH_OTHERS == <<"(", "M", "I", "T", " ", "O", "R", " ", "G", "p", "l", ")", " ", "W", "I", "T", "H", " ", "O", "T", "H", "E", "R", "S">>

\* 'MIT WITH Nil'
Rx_MIT_WITH_Nil == <<"M", "I", "T", " ", "W", "I", "T", "H", " ", "N", "i", "l">>

\* 'MIT WITH others'
Rx_MIT_WITH_others == <<"M", "I", "T", " ", "W", "I", "T", "H", " ", "o", "t", "h", "e", "r", "s">>

\* 'Gpl OR Nil'
Rx_Gpl_OR_Nil == <<"G", "p", "l", " ", "O", "R", " ", "N", "i", "l">>

\* 'MIT AND others'
Rx_MIT_AND_others == <<"M", "I", "T", " ", "A", "N", "D", " ", "o", "t", "h", "e", "r", "s">>

\* 'MIT with Gpl'
Rx_MIT_with_Gpl == <<"M", "I", "T", " ", "w", "i", "t", "h", " ", "G", "p", "l">>

\* 'MIT AND Gpl OR mit WITH OTHERS'
Rx_MIT_AND_Gpl_OR_mit_WITH_OTHERS == <<"M", "I", "T", " ", "A", "N", "D", " ", "G", "p", "l", " ", "O", "R", " ", "m", "i", "t", " ", "W", "I", "T", "H", " ", "O", "T", "H", "E", "R", "S">>

\* 'MIT AND '
Rx_MIT_AND == <<"M", "I", "T", " ", "A", "N", "D", " ">>

\* 'MIT (Gpl'
Rx_MIT_pGpl == <<"M", "I", "T", " ", "(", "G", "p", "l">>

\* 'MIT) AND Gpl'
Rx_MITp_AND_Gpl == <<"M", "I", "T", ")", " ", "A", "N", "D", " ", "G", "p", "l">>


\* 'MIT AND Gpl WITH Zlib'
Rx_MIT_AND_Gpl_WITH_Zlib == <<"M", "I", "T", " ", "A", "N", "D", " ", "G", "p", "l", " ", "W", "I", "T", "H", " ", "Z", "l", "i", "b">>

RenderExamples ==
    { Rx_Apache_AND_MIT,
      Rx_MIT_AND_Apache,
      Rx_MIT_AND_pApache_OR_Gplp,
      Rx_Gpl_WITH_Apache_OR_MIT,
      Rx_pMIT_OR_Gplp_WITH_OTHERS,
      Rx_MIT_WITH_Nil,
      Rx_MIT_WITH_others,
      Rx_Gpl_OR_Nil,
      Rx_MIT_AND_others,
      Rx_MIT_with_Gpl,
      Rx_MIT_AND_Gpl_OR_mit_WITH_OTHERS,
      Rx_MIT_AND,
      Rx_MIT_pGpl,
      Rx_MITp_AND_Gpl,
      Rx_MIT_AND_Gpl_WITH_Zlib }

RenderInputs == RenderChains \cup RenderWrapped \cup RenderBlank \cup RenderExamples

\* self.missing_licenses as earlier calls can have left it: Id_Gpl is in no
\* table
PriorMissing == SUBSET {Id_Gpl}

----------------------------------------------------------------------------
\* One call of get_license_text, and the same call once more

RenderInit ==
    /\ license_expression \in RenderInputs
    /\ include_license_headers \in BOOLEAN
    /\ licenses \in {_load_licenses(config) : config \in Configs}
    /\ missing_licenses \in PriorMissing
    /\ expr_tree = NoneNode
    /\ result = NoneStr
    /\ pc = "call"
    /\ NoSession
    /\ NoGenerator

\* result = self.get_license_text(license_expression, include_license_headers),
\* called on the LicenseManager a first time (pc = "call") and with the same
\* arguments a second time (pc = "return"); expr_tree is the local variable
\* of the call, unset when the call returns before the parser
GetLicenseText ==
    /\ pc \in {"call", "return"}
    /\ IF NotProvided(license_expression)
       THEN /\ result' = Text_NotProvided
            /\ expr_tree' = NoneNode
            /\ UNCHANGED missing_licenses
       ELSE /\ expr_tree' = _parse_expr(license_expression)
            /\ LET body == render(expr_tree', include_license_headers)
               IN  /\ result' = IntroPhrase(license_expression) \o body.text
                   /\ missing_licenses' = missing_licenses \cup body.added
    /\ pc' = IF pc = "call" THEN "return" ELSE "again"
    /\ UNCHANGED <<license_expression, include_license_headers, licenses>>
    /\ UNCHANGED <<session_vars, generator_vars>>

RenderNext == GetLicenseText

RenderSpec == RenderInit /\ [][RenderNext]_vars

----------------------------------------------------------------------------
\* The vocabulary of the properties of get_license_text

\* s occurs in t at the positions i..i+Len(s)-1
PositionsOf(t, s) ==
    {i \in 1..(Len(t) - Len(s) + 1) : SubSeq(t, i, i + Len(s) - 1) = s}

\* s is a contiguous piece of t
Contains(t, s) == PositionsOf(t, s) # {}

\* t begins with s
StartsWith(t, s) == Len(s) <= Len(t) /\ SubSeq(t, 1, Len(s)) = s

\* no line break in t from position i to position j
SameLine(t, i, j) == \A k \in i..j : t[k] # "\n"

\* the values of the LEAF nodes of a tree
RECURSIVE LeafIds(_)
LeafIds(node) ==
    IF node.kind = "LEAF" THEN {node.value}
    ELSE IF node.kind = "WITH" THEN LeafIds(node.left)
    ELSE IF node.kind \in {"AND", "OR"}
         THEN LeafIds(node.left) \cup LeafIds(node.right)
    ELSE {}

\* the exceptions of the WITH nodes of a tree
RECURSIVE ExceptionIds(_)
ExceptionIds(node) ==
    IF node.kind = "WITH" THEN {node.exception} \cup ExceptionIds(node.left)
    ELSE IF node.kind \in {"AND", "OR"}
         THEN ExceptionIds(node.left) \cup ExceptionIds(node.right)
    ELSE {}

\* the nodes of a tree
RECURSIVE NodesOf(_)
NodesOf(node) ==
    IF node.kind = "WITH" THEN {node} \cup NodesOf(node.left)
    ELSE IF node.kind \in {"AND", "OR"}
         THEN {node} \cup NodesOf(node.left) \cup NodesOf(node.right)
    ELSE IF node.kind = "LEAF" THEN {node}
    ELSE {}

\* the id is 'others' in some letter case
IsOthersId(v) ==
    /\ Len(v) = Len(Str_others)
    /\ \A i \in 1..Len(v) : v[i] = Str_others[i] \/ v[i] = Upper(Str_others)[i]

\* a key of the table equals the id up to letter case
InTable(v) == \E k \in DOMAIN licenses : Upper(k) = Upper(v)

\* the text of that entry
TableText(v) == licenses[CHOOSE k \in DOMAIN licenses : Upper(k) = Upper(v)]

\* a text of blanks only, or empty
BlankText(t) == \A i \in 1..Len(t) : IsSpace(t[i])

\* the catch-all text of 'others'
CatchAllText ==
    IF Key_others_definition \in DOMAIN licenses
    THEN licenses[Key_others_definition]
    ELSE OthersDefault

Str_not_found == <<"n", "o", "t", " ", "f", "o", "u", "n", "d">>

\* t has a line that names the id v and, after it, says 'not found'
PlaceholderFor(t, v) ==
    \E i \in PositionsOf(t, v), j \in PositionsOf(t, Str_not_found) :
        i <= j /\ SameLine(t, i, j)

\* the id w of the tree is rendered in the result
Rendered(w) ==
    IF IsOthersId(w) THEN Contains(result, CatchAllText)
    ELSE IF InTable(w)
         THEN BlankText(TableText(w)) \/ Contains(result, TableText(w))
    ELSE PlaceholderFor(result, w)

\* the leaf ids of the parsed expression no table entry answers
MissingLeafIds ==
    {v \in LeafIds(expr_tree) : ~IsOthersId(v) /\ ~InTable(v)}

\* the call has returned
Returned == pc # "call"

----------------------------------------------------------------------------
\* C11: a leaf whose id is in no table entry (and is not 'others') is
\* recoverable: get_license_text returns a string, the string has a
\* placeholder line naming the id and saying 'not found', the id is in
\* missing_licenses in its original letter case, and every other id of the
\* tree is still rendered.
C11_MissingLeafRecoverable ==
    Returned =>
        \A v \in MissingLeafIds :
            /\ result # NoneStr
            /\ PlaceholderFor(result, v)
            /\ v \in missing_licenses
            /\ \A w \in (LeafIds(expr_tree) \cup ExceptionIds(expr_tree)) \ {v} :
                    Rendered(w)

\* 'Gpl AND mit' with mit in the table: the placeholder for Gpl, Gpl recorded
\* as written, and the text of mit
C11_Witness ==
    /\ pc = "return"
    /\ license_expression = Id_Gpl \o OpAnd \o Id_mit
    /\ MissingLeafIds = {Id_Gpl}
    /\ InTable(Id_mit)
    /\ Id_Gpl \in missing_licenses
    /\ Lower(Id_Gpl) \notin missing_licenses
    /\ Contains(result, Text_MIT)

----------------------------------------------------------------------------
\* the leaf ids of the parsed expression a table entry answers
TableLeafIds ==
    {v \in LeafIds(expr_tree) : ~IsOthersId(v) /\ InTable(v)}

\* C12, as stated: a leaf whose id equals a table key up to letter case
\* gives output that contains the entry's exact text, and the id is not
\* added to missing_licenses.
C12_TableLeaf_AsStated ==
    Returned =>
        \A v \in TableLeafIds :
            /\ Contains(result, TableText(v))
            /\ v \notin missing_licenses

\* C12, amended: the same for an entry whose text is not blank; the leaf of
\* an entry whose text is blank adds nothing to the output, and the id is
\* not added to missing_licenses either way.
C12_TableLeaf ==
    Returned =>
        \A v \in TableLeafIds :
            /\ ~BlankText(TableText(v)) => Contains(result, TableText(v))
            /\ (BlankText(TableText(v)) /\ expr_tree.kind = "LEAF")
                    => result = IntroPhrase(license_expression)
            /\ v \notin missing_licenses

\* 'mit' against the key of the file 'MIT': the text of the entry, nothing
\* recorded
C12_Witness ==
    /\ pc = "return"
    /\ license_expression = Id_mit
    /\ Lower(Id_MIT) \in DOMAIN licenses
    /\ result = Text_MIT
    /\ ~include_license_headers
    /\ missing_licenses = {}

----------------------------------------------------------------------------
\* the ids of a tree: its leaves and its WITH exceptions
IdsOf(node) == LeafIds(node) \cup ExceptionIds(node)

\* C13: the id 'others' in any letter case, as a leaf or as a WITH
\* exception, with or without an 'others_definition' entry in the table, is
\* never added to missing_licenses: no id a call adds is 'others', and a call
\* whose ids are all 'others' leaves missing_licenses as it was.
C13_OthersNeverMissing ==
    [][pc = "call" =>
          /\ \A v \in missing_licenses' \ missing_licenses : ~IsOthersId(v)
          /\ (\A v \in IdsOf(expr_tree') : IsOthersId(v))
                => missing_licenses' = missing_licenses]_vars

\* 'Gpl WITH OTHERS' and no 'others_definition' entry: Gpl is recorded,
\* OTHERS is not
C13_Witness ==
    /\ pc = "return"
    /\ license_expression = Id_Gpl \o OpWith \o Id_OTHERS
    /\ expr_tree.kind = "WITH"
    /\ expr_tree.exception = Id_OTHERS
    /\ Key_others_definition \notin DOMAIN licenses
    /\ missing_licenses = {Id_Gpl}
    /\ Contains(result, OthersDefault)

----------------------------------------------------------------------------
\* the expression is the one id 'others', in some letter case
OthersLeaf == expr_tree.kind = "LEAF" /\ IsOthersId(expr_tree.value)

\* "Regarding 'others' conditions:"
FixedOthersHeader == <<"R", "e", "g", "a", "r", "d", "i", "n", "g", " ", "'", "o", "t", "h", "e", "r", "s", "'", " ", "c", "o", "n", "d", "i", "t", "i", "o", "n", "s", ":">>

\* t ends with s
EndsWith(t, s) ==
    Len(s) <= Len(t) /\ SubSeq(t, Len(t) - Len(s) + 1, Len(t)) = s

\* C14: a leaf whose id is 'others' in any letter case renders as the fixed
\* header line "Regarding 'others' conditions:", the same for every letter
\* case of the id, followed by the catch-all text: the 'others_definition'
\* entry of the table when there is one, the built-in notice otherwise.
C14_OthersFixedHeader ==
    (Returned /\ OthersLeaf) =>
        /\ StartsWith(result, IntroPhrase(license_expression) \o FixedOthersHeader \o NL)
        /\ EndsWith(result, CatchAllText)

----------------------------------------------------------------------------
\* the separator block with a label
SeparatorBlock(label) ==
    <<"\n", "\n", "-", "-", "-", "-", "-", "-", "-", "-", "-", "-", "-", "-", "-", "-", "-", "-", "-", "-", "-", "-", "\n">> \o label \o <<"\n", "-", "-", "-", "-", "-", "-", "-", "-", "-", "-", "-", "-", "-", "-", "-", "-", "-", "-", "-", "-", "\n", "\n">>

Label_AndAlso == <<"A", "n", "d", " ", "a", "l", "s", "o", ":">>

Label_Or == <<"O", "r", ":">>

\* the rendering of a subtree by the call of the state
RenderingOf(node) == render(node, include_license_headers).text

\* the pieces a, b, c occur in t one after the other, in this order
InOrder(t, a, b, c) ==
    \E i \in PositionsOf(t, a), j \in PositionsOf(t, b), k \in PositionsOf(t, c) :
        i + Len(a) <= j /\ j + Len(b) <= k

\* C15: every And(left, right) renders as the rendering of left, the
\* separator block 'And also:', the rendering of right, and every
\* Or(left, right) the same with 'Or:'; so 'Apache-2.0 AND MIT' with both
\* ids in the table gives the text of Apache-2.0, the 'And also:' block, the
\* text of MIT, and 'MIT AND Apache-2.0' gives them the other way round.
C15_AndOrInSourceOrder ==
    Returned =>
        /\ \A node \in NodesOf(expr_tree) :
              /\ node.kind = "AND" =>
                    RenderingOf(node) =
                        RenderingOf(node.left) \o SeparatorBlock(Label_AndAlso)
                            \o RenderingOf(node.right)
              /\ node.kind = "OR" =>
                    RenderingOf(node) =
                        RenderingOf(node.left) \o SeparatorBlock(Label_Or)
                            \o RenderingOf(node.right)
        /\ expr_tree.kind \in {"AND", "OR"} =>
              EndsWith(result, RenderingOf(expr_tree))
        /\ (license_expression = Rx_Apache_AND_MIT /\ InTable(Id_Apache) /\ InTable(Id_MIT))
              => InOrder(result, Text_Apache, SeparatorBlock(Label_AndAlso), Text_MIT)
        /\ (license_expression = Rx_MIT_AND_Apache /\ InTable(Id_Apache) /\ InTable(Id_MIT))
              => InOrder(result, Text_MIT, SeparatorBlock(Label_AndAlso), Text_Apache)

\* 'Apache-2.0 AND MIT' with both ids in the table
C15_Witness ==
    /\ pc = "return"
    /\ license_expression = Rx_Apache_AND_MIT
    /\ expr_tree.kind = "AND"
    /\ InTable(Id_Apache)
    /\ InTable(Id_MIT)
    /\ ~include_license_headers
    /\ result = Text_Apache \o SeparatorBlock(Label_AndAlso) \o Text_MIT

----------------------------------------------------------------------------
\* the separator block of a WITH node
WithBlock == SeparatorBlock(<<"W", "i", "t", "h", " ", "t", "h", "e", " ", "f", "o", "l", "l", "o", "w", "i", "n", "g", " ", "e", "x", "c", "e", "p", "t", "i", "o", "n", "(", "s", ")", ":">>)

\* what the lookup of an id gives: the catch-all text, the text of the table
\* entry, or the placeholder
LookupText(v) ==
    IF IsOthersId(v) THEN CatchAllText
    ELSE IF InTable(v) THEN TableText(v)
    ELSE ErrorText(v)

\* the lookup of an id records it exactly on a miss
RecordedOnMiss(v) ==
    IF IsOthersId(v) \/ InTable(v)
    THEN v \notin missing_licenses
    ELSE v \in missing_licenses

\* t without its first n characters
DropFirst(t, n) == SubSeq(t, n + 1, Len(t))

\* the WITH nodes of the parsed expression
WithNodes == {node \in NodesOf(expr_tree) : node.kind = "WITH"}

ExceptionHeader(v) ==
    IF IsOthersId(v)
    THEN <<"R", "e", "g", "a", "r", "d", "i", "n", "g", " ", "'">> \o v \o <<"'", " ", "c", "o", "n", "d", "i", "t", "i", "o", "n", "s", ":">>
    ELSE <<"F", "o", "r", " ", "l", "i", "c", "e", "n", "s", "e", ":", " ">> \o v

----------------------------------------------------------------------------
\* the rendering the claim gives a leaf of the table
TableLeafRendering(v) ==
    IF include_license_headers
    THEN <<"F", "o", "r", " ", "l", "i", "c", "e", "n", "s", "e", ":", " ">> \o v \o NL \o Dashes(Len(<<"F", "o", "r", " ", "l", "i", "c", "e", "n", "s", "e", ":", " ">> \o v)) \o NL
            \o TableText(v)
    ELSE TableText(v)

\* the LEAF nodes of the parsed expression a table entry answers
TableLeaves ==
    {node \in NodesOf(expr_tree) :
        node.kind = "LEAF" /\ ~IsOthersId(node.value) /\ InTable(node.value)}

\* C17, as stated: a leaf whose id is in the table (and is not 'others')
\* renders, with include_license_headers, as the header 'For license: {id}',
\* a divider of as many dashes as the header is long, and the license text;
\* without include_license_headers as exactly the license text.
C17_TableLeafLayout_AsStated ==
    Returned =>
        \A node \in TableLeaves :
            RenderingOf(node) = TableLeafRendering(node.value)

\* C17, amended: the same for an entry whose text is not blank; a leaf whose
\* entry has a blank text renders as the empty string with and without
\* include_license_headers.
C17_TableLeafLayout ==
    Returned =>
        /\ \A node \in TableLeaves :
              RenderingOf(node) =
                  IF BlankText(TableText(node.value)) THEN <<>>
                  ELSE TableLeafRendering(node.value)
        /\ expr_tree \in TableLeaves =>
              result = IntroPhrase(license_expression) \o RenderingOf(expr_tree)

\* 'MIT' with headers: header, sixteen dashes, text
C17_Witness ==
    /\ pc = "return"
    /\ license_expression = Id_MIT
    /\ include_license_headers
    /\ InTable(Id_MIT)
    /\ result = <<"F", "o", "r", " ", "l", "i", "c", "e", "n", "s", "e", ":", " ", "M", "I", "T", "\n", "-", "-", "-", "-", "-", "-", "-", "-", "-", "-", "-", "-", "-", "-", "-", "-", "\n">> \o Text_MIT

----------------------------------------------------------------------------
\* the raw expression has a parenthesis character
HasParenthesis(e) == \E i \in 1..Len(e) : e[i] \in {"(", ")"}

Notice_Start == <<"T", "h", "i", "s", " ", "c", "o", "m", "p", "o", "n", "e", "n", "t", " ", "i", "s", " ", "s", "u", "b", "j", "e", "c", "t", " ", "t", "o", " ", "a", " ", "c", "o", "m", "p", "l", "e", "x", " ", "l", "i", "c", "e", "n", "s", "e", " ", "e", "x", "p", "r", "e", "s", "s", "i", "o", "n", " ", "(">>

Notice_End == <<")", ".", " ", "P", "l", "e", "a", "s", "e", " ", "r", "e", "v", "i", "e", "w", " ", "a", "l", "l", " ", "a", "p", "p", "l", "i", "c", "a", "b", "l", "e", " ", "t", "e", "r", "m", "s", " ", "c", "a", "r", "e", "f", "u", "l", "l", "y", ":", "\n", "\n">>

\* the notice naming the expression e
ComplexNotice(e) == Notice_Start \o e \o Notice_End

\* the call has parsed its expression
Parsed == Returned /\ expr_tree # NoneNode

\* C18: the result is the 'complex license expression' notice, naming the
\* raw expression, followed by the rendered body if the raw expression has a
\* '(' or a ')' anywhere, and exactly the rendered body if it has none
\* (whatever AND, OR and WITH it mixes); so the result starts with the notice
\* if and only if the expression has a parenthesis.
C18_NoticeIffParenthesis ==
    Parsed =>
        /\ result =
              IF HasParenthesis(license_expression)
              THEN ComplexNotice(license_expression) \o RenderingOf(expr_tree)
              ELSE RenderingOf(expr_tree)
        /\ StartsWith(result, Notice_Start) <=> HasParenthesis(license_expression)

\* 'MIT) AND Gpl', with a closing parenthesis only (and so parsed as one
\* leaf): the notice comes first
C18_Witness ==
    /\ pc = "return"
    /\ license_expression = Rx_MITp_AND_Gpl
    /\ expr_tree.kind = "LEAF"
    /\ StartsWith(result, ComplexNotice(Rx_MITp_AND_Gpl))
    /\ Len(result) > Len(ComplexNotice(Rx_MITp_AND_Gpl))

----------------------------------------------------------------------------
\* None, the empty string or a string of whitespace only
Absent(e) == e = NoneStr \/ \A i \in 1..Len(e) : IsSpace(e[i])

Message_NotProvided == <<"L", "i", "c", "e", "n", "s", "e", " ", "i", "n", "f", "o", "r", "m", "a", "t", "i", "o", "n", " ", "n", "o", "t", " ", "p", "r", "o", "v", "i", "d", "e", "d", " ", "f", "o", "r", " ", "t", "h", "i", "s", " ", "c", "o", "m", "p", "o", "n", "e", "n", "t", ".">>

\* C19: for an expression that is None, empty or whitespace only the call
\* returns exactly 'License information not provided for this component.',
\* does not call the parser (expr_tree stays unset) and leaves
\* missing_licenses as it was.
C19_AbsentExpression ==
    [][(pc = "call" /\ Absent(license_expression)) =>
          /\ result' = Message_NotProvided
          /\ expr_tree' = NoneNode
          /\ missing_licenses' = missing_licenses]_vars

\* a tab and a blank, with something already in missing_licenses
C19_Witness ==
    /\ pc = "return"
    /\ license_expression = <<"\t", " ">>
    /\ result = Message_NotProvided
    /\ expr_tree = NoneNode
    /\ missing_licenses = {Id_Gpl}

----------------------------------------------------------------------------
\* C20: get_license_text is idempotent: the same call on the same
\* LicenseManager once more returns the string the first call returned and
\* leaves missing_licenses as the first call left it.
C20_Idempotent ==
    [][pc = "return" =>
          /\ result' = result
          /\ missing_licenses' = missing_licenses]_vars

\* 'Gpl OR Nil' called twice: one placeholder, Gpl recorded once
C20_Witness ==
    /\ pc = "again"
    /\ license_expression = Rx_Gpl_OR_Nil
    /\ PlaceholderFor(result, Id_Gpl)
    /\ missing_licenses = {Id_Gpl}
    /\ Cardinality(missing_licenses) = 1

----------------------------------------------------------------------------
\* Bounds of the sessions

\* most calls of get_license_text on one LicenseManager
MaxCalls == 2

----------------------------------------------------------------------------
\* Sessions: a LicenseManager is constructed, get_license_text is called on
\* it some times, then a second LicenseManager is constructed on the same
\* licenses.yaml and called in turn

\* another identifier no table has
Id_Zlib == <<"Z", "l", "i", "b">>

\* the arguments (license_expression, include_license_headers) of the calls
SessionCalls ==
    { <<Id_Gpl, TRUE>>,
      <<Id_mit \o OpWith \o Id_Gpl, FALSE>>,
      <<Id_OTHERS \o OpOr \o Id_Zlib, FALSE>>,
      <<<<" ">> \o Id_Apache \o OpAnd \o Id_Zlib \o <<" ">>, TRUE>>,
      <<<<" ">>, TRUE>> }

SessionInit ==
    /\ licenses \in {_load_licenses(config) : config \in Configs}
    /\ missing_licenses = {}
    /\ license_expression = NoneStr
    /\ include_license_headers = TRUE
    /\ expr_tree = NoneNode
    /\ result = NoneStr
    /\ pc = "constructed"
    /\ NoSession
    /\ NoGenerator

\* the set after a call when only a first miss is put on record
RecordedFirstOnly(missing, added) == IF missing = {} THEN added ELSE missing

\* self.missing_licenses after a call that keeps only its own ids
RecordedLastOnly(missing, added) == added

\* self.missing_licenses after self.missing_licenses.add(lic_id) for the ids
\* of added
Recorded(missing, added) == missing \cup added

\* result = self.get_license_text(e, h); the call is put on record with the
\* set it leaves
Call(e, h) ==
    /\ Len(calls) < MaxCalls
    /\ license_expression' = e
    /\ include_license_headers' = h
    /\ IF NotProvided(e)
       THEN /\ result' = Text_NotProvided
            /\ expr_tree' = NoneNode
            /\ UNCHANGED missing_licenses
       ELSE /\ expr_tree' = _parse_expr(e)
            /\ LET body == render(expr_tree', h)
               IN  /\ result' = IntroPhrase(e) \o body.text
                   /\ missing_licenses' = Recorded(missing_licenses, body.added)
    /\ calls' = Append(calls, [license_expression |-> e,
                               include_license_headers |-> h,
                               expr_tree |-> expr_tree',
                               result |-> result',
                               missing_licenses |-> missing_licenses'])
    /\ pc' = "return"
    /\ UNCHANGED <<licenses, previous, generator_vars>>

\* LicenseManager(license_config_path) once more, on the same file:
\* self.licenses = self._load_licenses(), self.missing_licenses = set()
Construct ==
    /\ ~previous.constructed
    /\ previous' = [constructed |-> TRUE, calls |-> calls,
                    missing_licenses |-> missing_licenses]
    /\ missing_licenses' = {}
    /\ calls' = <<>>
    /\ license_expression' = NoneStr
    /\ include_license_headers' = TRUE
    /\ expr_tree' = NoneNode
    /\ result' = NoneStr
    /\ pc' = "constructed"
    /\ UNCHANGED <<licenses, generator_vars>>

SessionNext ==
    \/ \E c \in SessionCalls : Call(c[1], c[2])
    \/ Construct

SessionSpec == SessionInit /\ [][SessionNext]_vars

----------------------------------------------------------------------------
\* a step is a call of get_license_text
IsCall == Len(calls') = Len(calls) + 1

\* C21: missing_licenses is empty on a LicenseManager no call was made on,
\* no call removes an element of it or resets it, and it holds at any time
\* every id that was in it after any earlier call on the LicenseManager.
C21_AppendOnly ==
    /\ [](calls = <<>> => missing_licenses = {})
    /\ [][IsCall => missing_licenses \subseteq missing_licenses']_vars
    /\ [](\A i \in DOMAIN calls :
            calls[i].missing_licenses \subseteq missing_licenses)

\* 'Gpl', then 'OTHERS OR Zlib': both ids are in the set
C21_Witness ==
    /\ Len(calls) = MaxCalls
    /\ calls[1].license_expression = Id_Gpl
    /\ calls[1].missing_licenses = {Id_Gpl}
    /\ license_expression = Id_OTHERS \o OpOr \o Id_Zlib
    /\ missing_licenses = {Id_Gpl, Id_Zlib}

----------------------------------------------------------------------------
\* On a LicenseManager with a table and with ids on record, one call of
\* _parse_expr or of get_license_text
ManagerNext == Parse \/ GetLicenseText

ManagerSpec == RenderInit /\ [][ManagerNext]_vars

\* the step is a call of _parse_expr alone: no string is returned
IsParse == pc = "call" /\ result' = NoneStr

\* C22: a call of _parse_expr leaves missing_licenses and the lookup table
\* as they were, whatever its input; missing_licenses changes only in a call
\* of get_license_text, and only by ids that the rendering looks up (leaves
\* and WITH exceptions of the tree).
C22_ParserFrame ==
    [][/\ IsParse =>
            /\ missing_licenses' = missing_licenses
            /\ licenses' = licenses
       /\ missing_licenses' # missing_licenses =>
            /\ ~IsParse
            /\ missing_licenses' \ missing_licenses \subseteq IdsOf(expr_tree')
       /\ licenses' = licenses]_vars

\* _parse_expr('Gpl AND mit') on a LicenseManager with entries in the table
\* and with Gpl on record: a tree, and the state of the LicenseManager as
\* before
C22_Witness ==
    /\ pc = "return"
    /\ result = NoneStr
    /\ license_expression = Id_Gpl \o OpAnd \o Id_mit
    /\ expr_tree.kind = "AND"
    /\ InTable(Id_mit)
    /\ missing_licenses = {Id_Gpl}

----------------------------------------------------------------------------
\* the ids the calls made so far on the instance asked for: the leaves and
\* WITH exceptions of the trees they rendered
Requested == UNION {IdsOf(calls[i].expr_tree) : i \in DOMAIN calls}

\* C23: in every state reached by a sequence of get_license_text calls on an
\* instance, every element of missing_licenses is the trimmed text of a leaf
\* or WITH exception of an expression rendered by an earlier call, is not
\* 'others' in any letter case, and is not a key of the table up to letter
\* case.
C23_MissingAreUnknownRequestedIds ==
    \A v \in missing_licenses :
        /\ v \in Requested
        /\ v = Trimmed(v)
        /\ ~IsOthersId(v)
        /\ ~InTable(v)

\* after ' Apache-2.0 AND Zlib ' and 'mit WITH Gpl' on an instance whose
\* table holds MIT and Apache-2.0: Zlib and Gpl on record, and no other id
C23_Witness ==
    /\ Len(calls) = MaxCalls
    /\ calls[1].license_expression =
           <<" ">> \o Id_Apache \o OpAnd \o Id_Zlib \o <<" ">>
    /\ calls[2].license_expression = Id_mit \o OpWith \o Id_Gpl
    /\ InTable(Id_mit)
    /\ InTable(Id_Apache)
    /\ missing_licenses = {Id_Zlib, Id_Gpl}

----------------------------------------------------------------------------
\* the ids of a tree, leaves and WITH exceptions, that are not 'others' and
\* match no key of the table
UnknownIds(node) == {v \in IdsOf(node) : ~IsOthersId(v) /\ ~InTable(v)}

\* C24: a call of get_license_text with an expression that is not blank
\* leaves in missing_licenses every leaf value and every WITH exception id of
\* the parsed tree that is not 'others' and is in no table entry, and adds
\* nothing else: missing_licenses after the call is missing_licenses before
\* it together with exactly those ids.
C24_MissingExactlyUnknownIds ==
    [][~Absent(license_expression) =>
          missing_licenses' = missing_licenses \cup UnknownIds(expr_tree')]_vars

\* a returned call whose tree has a WITH node with an exception on record
\* that is no leaf of the tree, a leaf on record, and an id of the table
\* that is not on record
C24_Witness ==
    /\ pc = "return"
    /\ \E node \in NodesOf(expr_tree) :
           /\ node.kind = "WITH"
           /\ node.exception \in missing_licenses
           /\ node.exception \notin LeafIds(expr_tree)
    /\ LeafIds(expr_tree) \cap missing_licenses # {}
    /\ \E v \in IdsOf(expr_tree) : InTable(v) /\ v \notin missing_licenses

----------------------------------------------------------------------------
\* the calls made on the two instances
AllCalls ==
    {calls[i] : i \in DOMAIN calls}
        \cup {previous.calls[i] : i \in DOMAIN previous.calls}

\* two calls with the same arguments
SameRequest(c, d) ==
    /\ c.license_expression = d.license_expression
    /\ c.include_license_headers = d.include_license_headers

\* the second instance was asked for the two expressions of the first one,
\* in the other order
Swapped ==
    /\ previous.constructed
    /\ Len(previous.calls) = 2
    /\ Len(calls) = 2
    /\ SameRequest(calls[1], previous.calls[2])
    /\ SameRequest(calls[2], previous.calls[1])

\* C25: the order of the calls does not matter. For two expressions rendered
\* on a LicenseManager of the same table in either order, the string
\* returned for each is the same whichever was rendered first, and
\* missing_licenses is the same after both orders; more generally a call
\* returns the same string whatever missing_licenses held before it.
C25_OrderIndependent ==
    /\ \A c, d \in AllCalls : SameRequest(c, d) => c.result = d.result
    /\ Swapped =>
          /\ calls[1].result = previous.calls[2].result
          /\ calls[2].result = previous.calls[1].result
          /\ missing_licenses = previous.missing_licenses

\* 'Gpl' then 'OTHERS OR Zlib' on the first instance, 'OTHERS OR Zlib' then
\* 'Gpl' on the second: both ids on record on both
C25_Witness ==
    /\ Swapped
    /\ previous.calls[1].license_expression = Id_Gpl
    /\ calls[1].license_expression = Id_OTHERS \o OpOr \o Id_Zlib
    /\ calls[1].missing_licenses = {Id_Zlib}
    /\ previous.calls[1].missing_licenses = {Id_Gpl}
    /\ missing_licenses = {Id_Gpl, Id_Zlib}

----------------------------------------------------------------------------
\* AttributionGenerator: components and their groups

MaxComponents == 3

\* Component(name, copyright, license, version, others_url, modified,
\* modified_url), None as NoneStr
Component(name, copyright, license, version, others_url, modified, modified_url) ==
    [name |-> name, copyright |-> copyright, license |-> license,
     version |-> version, others_url |-> others_url, modified |-> modified,
     modified_url |-> modified_url]

Key_UNSPECIFIED_LICENSE == <<"U", "N", "S", "P", "E", "C", "I", "F", "I", "E", "D", "_", "L", "I", "C", "E", "N", "S", "E">>

\* the license strings of the components: None, '', blanks, ids, an id with
\* a blank before it, two ids equal up to case, the text of the fallback key
ComponentLicenses ==
    { NoneStr, <<>>, <<" ">>, <<"\t", " ">>, Id_MIT, Id_mit, <<" ">> \o Id_MIT, Id_Gpl,
      Key_UNSPECIFIED_LICENSE }

\* the names of the components
ComponentNames == { <<"a">>, <<"b">> }

\* components that differ in name and license
PlainComponents ==
    { Component(n, <<"(", "c", ")", " ", "A">>, l, NoneStr, NoneStr, FALSE, NoneStr) :
          n \in ComponentNames, l \in ComponentLicenses }

\* the lists of at most n components of a set
ListsOf(S, n) == UNION {[1..k -> S] : k \in 0..n}

\* the key with the blanks around the license taken off
GroupKeyStripped(comp) ==
    IF comp.license # NoneStr /\ comp.license # <<>>
           /\ Strip(comp.license) # <<>>
    THEN Strip(comp.license)
    ELSE Key_UNSPECIFIED_LICENSE

\* key = comp.license if comp.license and comp.license.strip()
\*       else "UNSPECIFIED_LICENSE"
GroupKey(comp) ==
    IF comp.license # NoneStr /\ comp.license # <<>>
           /\ Strip(comp.license) # <<>>
    THEN comp.license
    ELSE Key_UNSPECIFIED_LICENSE

\* grouped[key].append(comp) on a defaultdict(list), the dict kept as the
\* list of its items in the order the keys were inserted
GroupAppend(items, key, comp) ==
    IF \E i \in DOMAIN items : items[i].key = key
    THEN [i \in DOMAIN items |->
             IF items[i].key = key
             THEN [key |-> key, components |-> Append(items[i].components, comp)]
             ELSE items[i]]
    ELSE Append(items, [key |-> key, components |-> <<comp>>])

\* the loop of group_by_license from the i-th component on
RECURSIVE GroupFrom(_, _, _)
GroupFrom(comps, i, items) ==
    IF i > Len(comps) THEN items
    ELSE GroupFrom(comps, i + 1, GroupAppend(items, GroupKey(comps[i]), comps[i]))

\* group_by_license(components)
group_by_license(comps) == GroupFrom(comps, 1, <<>>)

\* an AttributionGenerator, and the list its group_by_license is called with
GroupInit ==
    /\ components \in ListsOf(PlainComponents, MaxComponents)
    /\ license_serial_starts = <<>>
    /\ templates = <<>>
    /\ grouped = <<>>
    /\ listed = <<>>
    /\ attribution = <<>>
    /\ content = <<>>
    /\ cleaned = <<>>
    /\ licenses = <<>>
    /\ missing_licenses = {}
    /\ license_expression = NoneStr
    /\ include_license_headers = TRUE
    /\ expr_tree = NoneNode
    /\ result = NoneStr
    /\ pc = "call"
    /\ NoSession

\* grouped = self.group_by_license(components)
GroupByLicense ==
    /\ pc = "call"
    /\ grouped' = group_by_license(components)
    /\ pc' = "return"
    /\ UNCHANGED <<components, license_serial_starts, templates, listed,
                   attribution, content, cleaned>>
    /\ UNCHANGED <<license_expression, expr_tree, licenses, missing_licenses,
                   include_license_headers, result>>
    /\ UNCHANGED session_vars

GroupNext == GroupByLicense

GroupSpec == GroupInit /\ [][GroupNext]_vars

----------------------------------------------------------------------------
\* the key the claim gives a component
StatedKey(comp) ==
    IF comp.license = NoneStr \/ Absent(comp.license)
    THEN Key_UNSPECIFIED_LICENSE
    ELSE comp.license

\* the sum of a list of numbers
RECURSIVE Total(_)
Total(ns) == IF ns = <<>> THEN 0 ELSE Head(ns) + Total(Tail(ns))

\* C26: group_by_license partitions the components: the keys of the groups
\* are distinct, no group is empty, each group holds exactly the components
\* whose key it has (each component of the input in exactly one group), in
\* the order of the input, and the key of a component is its exact license
\* string, or 'UNSPECIFIED_LICENSE' when the license is None, empty or
\* whitespace only.
C26_GroupsPartition ==
    pc = "return" =>
        /\ \A i, j \in DOMAIN grouped :
               grouped[i].key = grouped[j].key => i = j
        /\ \A i \in DOMAIN grouped :
               /\ grouped[i].components # <<>>
               /\ grouped[i].components =
                      SelectSeq(components,
                                LAMBDA c : StatedKey(c) = grouped[i].key)
        /\ \A k \in DOMAIN components :
               \E i \in DOMAIN grouped : grouped[i].key = StatedKey(components[k])
        /\ LET sizes == [i \in DOMAIN grouped |-> Len(grouped[i].components)]
           IN  Total(sizes) = Len(components)

\* [b: ' MIT', a: None, a: ' MIT'] grouped: ' MIT' with the two components
\* of that license in the order of the list, then 'UNSPECIFIED_LICENSE'
C26_Witness ==
    /\ pc = "return"
    /\ Len(components) = 3
    /\ components[1].license = <<" ">> \o Id_MIT
    /\ components[2].license = NoneStr
    /\ components[3].license = <<" ">> \o Id_MIT
    /\ components[1].name # components[3].name
    /\ Len(grouped) = 2
    /\ grouped[1] = [key |-> <<" ">> \o Id_MIT,
                     components |-> <<components[1], components[3]>>]
    /\ grouped[2] = [key |-> Key_UNSPECIFIED_LICENSE,
                     components |-> <<components[2]>>]

----------------------------------------------------------------------------
\* AttributionGenerator._clean_content

\* bounds of the texts _clean_content is called with
MaxContent == 5

\* the line boundaries of str.splitlines() among the characters of the texts
LineBreaks == {"\n", "\r"}

\* the position of the line break that ends the line beginning at i, or
\* Len(s) + 1 for a last line without one
LineEnd(s, i) ==
    LET breaks == {j \in i..Len(s) : s[j] \in LineBreaks}
    IN  IF breaks = {} THEN Len(s) + 1
        ELSE CHOOSE j \in breaks : \A k \in breaks : j <= k

\* content.splitlines() from position i on: "\r\n" is one boundary, and no
\* empty line follows a final boundary
RECURSIVE SplitLinesFrom(_, _)
SplitLinesFrom(s, i) ==
    IF i > Len(s) THEN <<>>
    ELSE LET end == LineEnd(s, i)
             next == IF end < Len(s) /\ s[end] = "\r" /\ s[end + 1] = "\n"
                     THEN end + 2 ELSE end + 1
         IN  <<SubSeq(s, i, end - 1)>> \o SplitLinesFrom(s, next)

\* content.splitlines()
SplitLines(s) == SplitLinesFrom(s, 1)

\* line.rstrip()
RECURSIVE RStrip(_)
RStrip(line) ==
    IF line # <<>> /\ IsSpace(line[Len(line)])
    THEN RStrip(SubSeq(line, 1, Len(line) - 1))
    ELSE line

\* while lines and not lines[0]: lines.pop(0)
RECURSIVE PopLeading(_)
PopLeading(lines) ==
    IF lines # <<>> /\ Head(lines) = <<>> THEN PopLeading(Tail(lines))
    ELSE lines

\* while lines and not lines[-1]: lines.pop()
RECURSIVE PopTrailing(_)
PopTrailing(lines) ==
    IF lines # <<>> /\ lines[Len(lines)] = <<>>
    THEN PopTrailing(SubSeq(lines, 1, Len(lines) - 1))
    ELSE lines

\* sep.join(parts)
RECURSIVE Join(_, _)
Join(sep, parts) ==
    IF parts = <<>> THEN <<>>
    ELSE IF Len(parts) = 1 THEN parts[1]
    ELSE parts[1] \o sep \o Join(sep, Tail(parts))

\* _clean_content(content)
_clean_content(text) ==
    LET split == SplitLines(text)
        lines == [i \in DOMAIN split |-> RStrip(split[i])]
    IN  Join(NL, PopTrailing(PopLeading(lines)))

----------------------------------------------------------------------------
\* str.format on the templates

\* a call that returned a value
Value(v) == [raised |-> "None", value |-> v]

\* a call that raised an exception
Raise(kind, what) == [raised |-> kind, value |-> what]

\* text, then the outcome of formatting what follows it
After(text, rest) ==
    IF rest.raised = "None" THEN Value(text \o rest.value) ELSE rest

\* the least element of a non-empty set of positions
First(positions) == CHOOSE j \in positions : \A k \in positions : j <= k

\* template.format(**kwargs) from position i on: the text up to the next
\* brace is copied; '{{' and '}}' are braces, '{name}' is replaced by
\* kwargs[name] and raises KeyError without it; a brace without its partner
\* raises ValueError, '{}' IndexError
RECURSIVE FormatFrom(_, _, _)
FormatFrom(template, i, kwargs) ==
    LET braces == {j \in i..Len(template) : template[j] \in {"{", "}"}}
    IN  IF braces = {} THEN Value(SubSeq(template, i, Len(template)))
        ELSE LET at == First(braces)
                 literal == SubSeq(template, i, at - 1)
                 closing == {j \in at + 1..Len(template) : template[j] = "}"}
             IN  IF at < Len(template) /\ template[at + 1] = template[at]
                 THEN After(literal \o <<template[at]>>,
                            FormatFrom(template, at + 2, kwargs))
                 ELSE IF template[at] = "}"
                 THEN Raise("ValueError", <<"S", "i", "n", "g", "l", "e", " ", "'", "}", "'", " ", "e", "n", "c", "o", "u", "n", "t", "e", "r", "e", "d", " ", "i", "n", " ", "f", "o", "r", "m", "a", "t", " ", "s", "t", "r", "i", "n", "g">>)
                 ELSE IF closing = {}
                 THEN Raise("ValueError", <<"e", "x", "p", "e", "c", "t", "e", "d", " ", "'", "}", "'", " ", "b", "e", "f", "o", "r", "e", " ", "e", "n", "d", " ", "o", "f", " ", "s", "t", "r", "i", "n", "g">>)
                 ELSE LET end == First(closing)
                          name == SubSeq(template, at + 1, end - 1)
                      IN  IF \E k \in DOMAIN name : name[k] = "{"
                          THEN Raise("ValueError", <<"u", "n", "e", "x", "p", "e", "c", "t", "e", "d", " ", "'", "{", "'", " ", "i", "n", " ", "f", "i", "e", "l", "d", " ", "n", "a", "m", "e">>)
                          ELSE IF name = <<>>
                          THEN Raise("IndexError", <<"R", "e", "p", "l", "a", "c", "e", "m", "e", "n", "t", " ", "i", "n", "d", "e", "x", " ", "0", " ", "o", "u", "t", " ", "o", "f", " ", "r", "a", "n", "g", "e", " ", "f", "o", "r", " ", "p", "o", "s", "i", "t", "i", "o", "n", "a", "l", " ", "a", "r", "g", "s", " ", "t", "u", "p", "l", "e">>)
                          ELSE IF name \notin DOMAIN kwargs
                          THEN Raise("KeyError", name)
                          ELSE After(literal \o kwargs[name],
                                     FormatFrom(template, end + 1, kwargs))

\* template.format(**kwargs)
format(template, kwargs) == FormatFrom(template, 1, kwargs)

\* str(n) of an integer
RECURSIVE StrOf(_)
StrOf(n) ==
    IF n < 0 THEN <<"-">> \o StrOf(0 - n)
    ELSE IF n < 10 THEN <<<<"0", "1", "2", "3", "4", "5", "6", "7", "8", "9">>[n + 1]>>
    ELSE StrOf(n \div 10) \o <<<<"0", "1", "2", "3", "4", "5", "6", "7", "8", "9">>[(n % 10) + 1]>>

----------------------------------------------------------------------------
\* TemplateManager.get_template

\* the default get_template returns for a name that is not configured (the
\* bullet U+2022 of others_url_item is written '*')
DefaultTemplate(template_name) ==
    IF template_name = <<"h", "e", "a", "d", "e", "r">>
    THEN <<"O", "p", "e", "n", " ", "S", "o", "u", "r", "c", "e", " ", "S", "o", "f", "t", "w", "a", "r", "e", " ", "A", "t", "t", "r", "i", "b", "u", "t", "i", "o", "n", "\n", "P", "r", "o", "j", "e", "c", "t", ":", " ", "{", "p", "r", "o", "j", "e", "c", "t", "_", "n", "a", "m", "e", "}", "\n", "C", "o", "p", "y", "r", "i", "g", "h", "t", " ", "(", "c", ")", " ", "{", "c", "o", "p", "y", "r", "i", "g", "h", "t", "_", "h", "o", "l", "d", "e", "r", "_", "f", "u", "l", "l", "}", "\n">>
    ELSE IF template_name = <<"f", "o", "o", "t", "e", "r">>
    THEN <<"\n", "E", "n", "d", " ", "o", "f", " ", "A", "t", "t", "r", "i", "b", "u", "t", "i", "o", "n", " ", "F", "i", "l", "e">>
    ELSE IF template_name = <<"c", "o", "m", "p", "o", "n", "e", "n", "t", "_", "l", "i", "s", "t", "i", "n", "g">>
    THEN <<"{", "s", "e", "r", "i", "a", "l", "_", "n", "u", "m", "b", "e", "r", "}", ".", " ", "{", "n", "a", "m", "e", "}", " ", "(", "v", "{", "v", "e", "r", "s", "i", "o", "n", "}", ")", "\n", "{", "c", "o", "p", "y", "r", "i", "g", "h", "t", "}", "{", "m", "o", "d", "i", "f", "i", "c", "a", "t", "i", "o", "n", "_", "n", "o", "t", "i", "c", "e", "}">>
    ELSE IF template_name = <<"l", "i", "c", "e", "n", "s", "e", "_", "g", "r", "o", "u", "p", "_", "h", "e", "a", "d", "e", "r">>
    THEN <<"C", "o", "m", "p", "o", "n", "e", "n", "t", "s", " ", "u", "n", "d", "e", "r", " ", "l", "i", "c", "e", "n", "s", "e", ":", " ", "{", "l", "i", "c", "e", "n", "s", "e", "_", "i", "d", "}">>
    ELSE IF template_name = <<"l", "i", "c", "e", "n", "s", "e", "_", "g", "r", "o", "u", "p", "_", "f", "o", "o", "t", "e", "r">>
    THEN <<"L", "i", "c", "e", "n", "s", "e", " ", "t", "e", "x", "t", " ", "f", "o", "r", " ", "{", "l", "i", "c", "e", "n", "s", "e", "_", "i", "d", "}", ":", "\n", "\n", "{", "l", "i", "c", "e", "n", "s", "e", "_", "t", "e", "x", "t", "}">>
    ELSE IF template_name = <<"i", "n", "t", "e", "r", "_", "l", "i", "c", "e", "n", "s", "e", "_", "s", "e", "p", "a", "r", "a", "t", "o", "r">>
    THEN [i \in 1..80 |-> "="]
    ELSE IF template_name = <<"o", "t", "h", "e", "r", "s", "_", "u", "r", "l", "_", "s", "e", "c", "t", "i", "o", "n", "_", "h", "e", "a", "d", "e", "r">>
    THEN <<"\n", "A", "d", "d", "i", "t", "i", "o", "n", "a", "l", " ", "n", "o", "t", "i", "c", "e", "s", " ", "f", "o", "r", " ", "t", "h", "e", " ", "a", "b", "o", "v", "e", " ", "c", "o", "m", "p", "o", "n", "e", "n", "t", "s", ":">>
    ELSE IF template_name = <<"o", "t", "h", "e", "r", "s", "_", "u", "r", "l", "_", "i", "t", "e", "m">>
    THEN <<" ", " ", "*", " ", "C", "o", "m", "p", "o", "n", "e", "n", "t", " ", "{", "c", "o", "m", "p", "o", "n", "e", "n", "t", "_", "s", "e", "r", "i", "a", "l", "_", "n", "u", "m", "b", "e", "r", "}", " ", "(", "{", "c", "o", "m", "p", "o", "n", "e", "n", "t", "_", "n", "a", "m", "e", "}", ")", ":", " ", "{", "o", "t", "h", "e", "r", "s", "_", "u", "r", "l", "}">>
    ELSE <<"[", "T", "e", "m", "p", "l", "a", "t", "e", " ", "'">> \o template_name \o <<"'", " ", "n", "o", "t", " ", "f", "o", "u", "n", "d", "]">>

\* self.template_manager.get_template(template_name)
get_template(template_name) ==
    IF template_name \in DOMAIN templates
    THEN templates[template_name]
    ELSE DefaultTemplate(template_name)

----------------------------------------------------------------------------
\* AttributionGenerator.generate_attribution

\* the arguments the generator was constructed with
project_name == <<"D", "e", "m", "o">>

copyright_holder_full == <<"E", "x", "a", "m", "p", "l", "e", " ", "C", "o", "r", "p", "o", "r", "a", "t", "i", "o", "n">>

copyright_holder_short == <<"E", "x", "a", "m", "p", "l", "e">>

\* component_spacing: int = 1
component_spacing == 1

\* the truth value of an optional string: None and '' are false
Truthy(s) == s # NoneStr /\ s # <<>>

\* text.startswith(prefix)
StartsWithPrefix(text, prefix) ==
    Len(text) >= Len(prefix) /\ SubSeq(text, 1, Len(prefix)) = prefix

\* 'others' in license_expression.lower()
_has_others_in_license(expr) ==
    /\ Truthy(expr)
    /\ \E i \in 1..Len(expr) - Len(Str_others) + 1 :
           SubSeq(Lower(expr), i, i + Len(Str_others) - 1) = Str_others

\* _resolve_others_url(others_url, None): a Component has no repository
\* attribute, so that getattr(comp_obj, "repository", None) is None and the
\* url comes back as written
_resolve_others_url(others_url) ==
    IF ~Truthy(others_url) THEN <<>>
    ELSE IF StartsWithPrefix(others_url, <<"h", "t", "t", "p", ":", "/", "/">>)
            \/ StartsWithPrefix(others_url, <<"h", "t", "t", "p", "s", ":", "/", "/">>)
    THEN others_url
    ELSE others_url

\* _format_optional_field(value, prefix="\n")
_format_optional_field(value) == IF Truthy(value) THEN NL \o value ELSE <<>>

\* self.license_serial_starts.get(key, 1) with the keys compared up to case
SerialStartAnyCase(key) ==
    IF \E k \in DOMAIN license_serial_starts : Lower(k) = Lower(key)
    THEN license_serial_starts[
             CHOOSE k \in DOMAIN license_serial_starts : Lower(k) = Lower(key)]
    ELSE 1

\* serial_start = self.license_serial_starts.get(license_expr_key, 1)
SerialStart(key) ==
    IF key \in DOMAIN license_serial_starts
    THEN license_serial_starts[key]
    ELSE 1

\* the first of a list of outcomes that raised, or the last one
FirstRaised(outcomes) ==
    IF \E i \in DOMAIN outcomes : outcomes[i].raised # "None"
    THEN outcomes[CHOOSE i \in DOMAIN outcomes :
                      /\ outcomes[i].raised # "None"
                      /\ \A j \in 1..i - 1 : outcomes[j].raised = "None"]
    ELSE outcomes[Len(outcomes)]

\* the optional statements of a component: modification_notice,
\* others_url_statement and version_display, in the order the code formats
\* them; repository_statement and repository_statement_with_newline stay ''
\* (no repository attribute)
OptionalStatements(comp, key) ==
    LET mod_url_clause ==
            IF comp.modified /\ Truthy(comp.modified_url)
            THEN format(get_template(<<"m", "o", "d", "i", "f", "i", "c", "a", "t", "i", "o", "n", "_", "u", "r", "l", "_", "c", "l", "a", "u", "s", "e">>),
                        <<"m", "o", "d", "i", "f", "i", "e", "d", "_", "u", "r", "l">> :> comp.modified_url)
            ELSE Value(<<>>)
        modification_notice ==
            IF ~comp.modified THEN Value(<<>>)
            ELSE IF mod_url_clause.raised # "None" THEN mod_url_clause
            ELSE format(get_template(<<"m", "o", "d", "i", "f", "i", "c", "a", "t", "i", "o", "n", "_", "n", "o", "t", "i", "c", "e">>),
                        (<<"c", "o", "p", "y", "r", "i", "g", "h", "t", "_", "h", "o", "l", "d", "e", "r", "_", "s", "h", "o", "r", "t">> :> copyright_holder_short)
                            @@ (<<"m", "o", "d", "i", "f", "i", "e", "d", "_", "u", "r", "l", "_", "c", "l", "a", "u", "s", "e">> :> mod_url_clause.value))
        resolved_url == _resolve_others_url(comp.others_url)
        others_url_statement ==
            IF _has_others_in_license(key) /\ Truthy(comp.others_url)
                   /\ Truthy(resolved_url)
            THEN format(get_template(<<"o", "t", "h", "e", "r", "s", "_", "l", "i", "c", "e", "n", "s", "e", "_", "n", "o", "t", "i", "c", "e">>),
                        <<"u", "r", "l">> :> resolved_url)
            ELSE Value(<<>>)
        version_display ==
            IF Truthy(comp.version) /\ Strip(comp.version) # <<>>
            THEN format(get_template(<<"v", "e", "r", "s", "i", "o", "n", "_", "d", "i", "s", "p", "l", "a", "y">>),
                        <<"v", "e", "r", "s", "i", "o", "n">> :> comp.version)
            ELSE Value(<<>>)
        outcome == FirstRaised(<<modification_notice, others_url_statement,
                                 version_display>>)
    IN  IF outcome.raised # "None" THEN outcome
        ELSE Value([modification_notice |-> modification_notice.value,
                    others_url_statement |-> others_url_statement.value,
                    version_display |-> version_display.value])

\* the keyword arguments of the component_listing format call
ListingArguments(comp, idx, statements) ==
    LET optional_statements ==
            (IF statements.modification_notice # <<>>
             THEN <<statements.modification_notice>> ELSE <<>>)
                \o (IF statements.others_url_statement # <<>>
                    THEN <<statements.others_url_statement>> ELSE <<>>)
        combined_optional == _format_optional_field(Join(NL, optional_statements))
    IN  (<<"s", "e", "r", "i", "a", "l", "_", "n", "u", "m", "b", "e", "r">> :> StrOf(idx))
            @@ (<<"n", "a", "m", "e">> :> comp.name)
            @@ (<<"v", "e", "r", "s", "i", "o", "n">> :> IF Truthy(comp.version) THEN comp.version ELSE <<>>)
            @@ (<<"v", "e", "r", "s", "i", "o", "n", "_", "d", "i", "s", "p", "l", "a", "y">> :> statements.version_display)
            @@ (<<"c", "o", "p", "y", "r", "i", "g", "h", "t">> :> IF Truthy(comp.copyright) THEN comp.copyright ELSE <<>>)
            @@ (<<"m", "o", "d", "i", "f", "i", "c", "a", "t", "i", "o", "n", "_", "n", "o", "t", "i", "c", "e", "_", "w", "i", "t", "h", "_", "n", "e", "w", "l", "i", "n", "e">> :> combined_optional)
            @@ (<<"r", "e", "p", "o", "s", "i", "t", "o", "r", "y", "_", "s", "t", "a", "t", "e", "m", "e", "n", "t", "_", "w", "i", "t", "h", "_", "n", "e", "w", "l", "i", "n", "e">> :> <<>>)

\* [""] * n
EmptyParts(n) == [i \in 1..n |-> <<>>]

\* the run of generate_attribution so far: output_parts, the component_listing
\* calls made, the ids get_license_text added to missing_licenses, and the
\* exception that ended it, if any
Failed(run, outcome) ==
    [run EXCEPT !.raised = outcome.raised, !.value = outcome.value]

\* for offset, comp_obj in enumerate(component_list), from the k-th
\* component on
RECURSIVE ListFrom(_, _, _, _)
ListFrom(key, component_list, k, run) ==
    IF k > Len(component_list) \/ run.raised # "None" THEN run
    ELSE LET comp_obj == component_list[k]
             idx == SerialStart(key) + (k - 1)
             statements == OptionalStatements(comp_obj, key)
         IN  IF statements.raised # "None" THEN Failed(run, statements)
             ELSE LET component_text ==
                          format(get_template(<<"c", "o", "m", "p", "o", "n", "e", "n", "t", "_", "l", "i", "s", "t", "i", "n", "g">>),
                                 ListingArguments(comp_obj, idx, statements.value))
                      called == [run EXCEPT !.listed =
                                    Append(@, [license_id |-> key,
                                               name |-> comp_obj.name,
                                               serial_number |-> idx])]
                  IN  IF component_text.raised # "None"
                      THEN Failed(called, component_text)
                      ELSE ListFrom(key, component_list, k + 1,
                               [called EXCEPT !.parts =
                                   @ \o <<_clean_content(component_text.value)>>
                                     \o (IF k < Len(component_list)
                                         THEN EmptyParts(component_spacing)
                                         ELSE <<>>)])

\* the intro phrase before the rendered tree
WithIntro(expr, body) ==
    [text |-> IntroPhrase(expr) \o body.text, added |-> body.added]

\* self.license_manager.get_license_text(license_expression,
\* include_license_headers): the string, and the ids it adds to
\* missing_licenses
get_license_text(expr, include_headers) ==
    IF NotProvided(expr) THEN [text |-> Text_NotProvided, added |-> {}]
    ELSE WithIntro(expr, render(_parse_expr(expr), include_headers))

\* the license text of a group and its footer, after the components:
\* single_license_footer for a single group, license_group_footer otherwise;
\* three empty parts follow every group but the last
GroupFooter(key, single, last, run, combined) ==
    LET license_footer ==
            format(get_template(IF single THEN <<"s", "i", "n", "g", "l", "e", "_", "l", "i", "c", "e", "n", "s", "e", "_", "f", "o", "o", "t", "e", "r">>
                                ELSE <<"l", "i", "c", "e", "n", "s", "e", "_", "g", "r", "o", "u", "p", "_", "f", "o", "o", "t", "e", "r">>),
                   (<<"l", "i", "c", "e", "n", "s", "e", "_", "i", "d">> :> key) @@ (<<"l", "i", "c", "e", "n", "s", "e", "_", "t", "e", "x", "t">> :> combined.text))
        looked_up == [run EXCEPT !.added = @ \cup combined.added]
    IN  IF license_footer.raised # "None"
        THEN Failed(looked_up, license_footer)
        ELSE [looked_up EXCEPT !.parts =
                 @ \o <<_clean_content(license_footer.value)>>
                   \o (IF last THEN <<>> ELSE <<<<>>, <<>>, <<>>>>)]

\* combined_license_text = self.license_manager.get_license_text(
\* license_expr_key, include_license_headers=False), unless a component of
\* the group raised
GroupTerms(key, single, last, run) ==
    IF run.raised # "None" THEN run
    ELSE GroupFooter(key, single, last, run, get_license_text(key, FALSE))

\* the header of a group and its components
GroupListing(key, component_list, run) ==
    LET license_header ==
            format(get_template(<<"l", "i", "c", "e", "n", "s", "e", "_", "g", "r", "o", "u", "p", "_", "h", "e", "a", "d", "e", "r">>), <<"l", "i", "c", "e", "n", "s", "e", "_", "i", "d">> :> key)
    IN  IF license_header.raised # "None" THEN Failed(run, license_header)
        ELSE ListFrom(key, component_list, 1,
                 [run EXCEPT !.parts =
                     @ \o <<<<>>, <<>>, _clean_content(license_header.value)>>])

\* for i, (license_expr_key, component_list) in
\* enumerate(sorted_grouped_items), from the i-th group on
RECURSIVE GroupsFrom(_, _, _)
GroupsFrom(items, i, run) ==
    IF i > Len(items) \/ run.raised # "None" THEN run
    ELSE GroupsFrom(items, i + 1,
             GroupTerms(items[i].key, Len(items) = 1, i = Len(items),
                        GroupListing(items[i].key, items[i].components, run)))

\* the characters from ' ' to '_' and from 'a' to '~' in the order of their
\* code points, 32 to 95 and 97 to 126
AsciiLow == <<" ", "!", "\"", "#", "$", "%", "&", "'", "(", ")", "*", "+", ",", "-", ".", "/", "0", "1", "2", "3", "4", "5", "6", "7", "8", "9", ":", ";", "<", "=", ">", "?", "@", "A", "B", "C", "D", "E", "F", "G", "H", "I", "J", "K", "L", "M", "N", "O", "P", "Q", "R", "S", "T", "U", "V", "W", "X", "Y", "Z", "[", "\\", "]", "^", "_">>

AsciiHigh == <<"a", "b", "c", "d", "e", "f", "g", "h", "i", "j", "k", "l", "m", "n", "o", "p", "q", "r", "s", "t", "u", "v", "w", "x", "y", "z", "{", "|", "}", "~">>

\* ord(c) of one of these characters, of a tab and of a line break
Ord(c) ==
    IF c = "\t" THEN 9 ELSE IF c = "\n" THEN 10 ELSE IF c = "\r" THEN 13
    ELSE IF \E i \in DOMAIN AsciiLow : AsciiLow[i] = c
    THEN 31 + CHOOSE i \in DOMAIN AsciiLow : AsciiLow[i] = c
    ELSE 96 + CHOOSE i \in DOMAIN AsciiHigh : AsciiHigh[i] = c

\* a < b on strings
StrLess(a, b) ==
    \E k \in 1..Len(b) :
        /\ k <= Len(a) + 1
        /\ SubSeq(a, 1, k - 1) = SubSeq(b, 1, k - 1)
        /\ k = Len(a) + 1 \/ Ord(a[k]) < Ord(b[k])

\* sorted(..., key=lambda item: item[0].lower()) of the first n items: the
\* sort is stable, an item goes behind the earlier items that are not
\* greater
RECURSIVE SortedPrefix(_, _)
SortedPrefix(items, n) ==
    IF n = 0 THEN <<>>
    ELSE LET before == SortedPrefix(items, n - 1)
             item == items[n]
             ahead == {j \in DOMAIN before :
                          ~StrLess(Lower(item.key), Lower(before[j].key))}
             at == Cardinality(ahead)
         IN  SubSeq(before, 1, at) \o <<item>> \o SubSeq(before, at + 1, Len(before))

\* sorted(grouped_components.items(), key=lambda item: item[0].lower())
SortedItems(items) == SortedPrefix(items, Len(items))

\* "project_name": ..., "copyright_holder_full": ...,
\* "copyright_holder_short": ...
global_config_values ==
    (<<"p", "r", "o", "j", "e", "c", "t", "_", "n", "a", "m", "e">> :> project_name)
        @@ (<<"c", "o", "p", "y", "r", "i", "g", "h", "t", "_", "h", "o", "l", "d", "e", "r", "_", "f", "u", "l", "l">> :> copyright_holder_full)
        @@ (<<"c", "o", "p", "y", "r", "i", "g", "h", "t", "_", "h", "o", "l", "d", "e", "r", "_", "s", "h", "o", "r", "t">> :> copyright_holder_short)

\* the footer after the groups, and the document: the parts joined by line
\* breaks and cleaned once more
Finish(run) ==
    LET formatted_footer ==
            format(get_template(<<"f", "o", "o", "t", "e", "r">>), global_config_values)
    IN  IF run.raised # "None" THEN run
        ELSE IF formatted_footer.raised # "None"
        THEN Failed(run, formatted_footer)
        ELSE [run EXCEPT !.value =
                 _clean_content(
                     Join(NL, run.parts
                          \o <<<<>>, _clean_content(formatted_footer.value)>>))]

\* the header, then the groups in the order of their lowercased keys
Attribute(start) ==
    LET formatted_header ==
            format(get_template(<<"h", "e", "a", "d", "e", "r">>), global_config_values)
    IN  IF formatted_header.raised # "None"
        THEN Failed(start, formatted_header)
        ELSE Finish(GroupsFrom(SortedItems(start.grouped), 1,
                        [start EXCEPT !.parts =
                            <<_clean_content(formatted_header.value)>>]))

\* generate_attribution(components): what it returns or raises, with the
\* groups, the component_listing calls and the ids added to missing_licenses
generate_attribution(comps) ==
    IF comps = <<>>
    THEN [raised |-> "None", value |-> <<"N", "o", " ", "c", "o", "m", "p", "o", "n", "e", "n", "t", "s", " ", "t", "o", " ", "a", "t", "t", "r", "i", "b", "u", "t", "e", ".">>,
          parts |-> <<>>, listed |-> <<>>, added |-> {}, grouped |-> <<>>]
    ELSE Attribute([raised |-> "None", value |-> <<>>, parts |-> <<>>,
                    listed |-> <<>>, added |-> {},
                    grouped |-> group_by_license(comps)])

----------------------------------------------------------------------------
\* The calls of generate_attribution

\* components with and without a version, a modification, a url of further
\* notices; 'MIT' and 'mit' are two groups with the same sort key
ListedComponents ==
    { Component(<<"a">>, <<"(", "c", ")", " ", "A">>, Id_MIT, <<"1", ".", "0">>, NoneStr, FALSE, NoneStr),
      Component(<<"b">>, <<"(", "c", ")", " ", "B">>, Id_MIT, NoneStr, NoneStr, TRUE, <<"h", "t", "t", "p", ":", "/", "/", "m">>),
      Component(<<"c">>, <<>>, NoneStr, <<" ">>, NoneStr, TRUE, NoneStr),
      Component(<<"d">>, <<"(", "c", ")", " ", "D">>, Id_mit, NoneStr, NoneStr, FALSE, NoneStr),
      Component(<<"e">>, <<"(", "c", ")", " ", "E">>, Id_Gpl \o OpAnd \o Str_others, NoneStr,
                <<"n", "o", "t", "e", "s", ".", "t", "x", "t">>, FALSE, NoneStr) }

\* license_serial_starts: None, and starts for two keys
SerialStarts ==
    { <<>>, (Id_MIT :> 5) @@ (Key_UNSPECIFIED_LICENSE :> 3) }

\* a templates.yaml with every template generate_attribution asks for
Templates_Configured ==
    (<<"h", "e", "a", "d", "e", "r">> :> <<"A", "t", "t", "r", "i", "b", "u", "t", "i", "o", "n", " ", "f", "o", "r", " ", "{", "p", "r", "o", "j", "e", "c", "t", "_", "n", "a", "m", "e", "}", "\n", "(", "c", ")", " ", "{", "c", "o", "p", "y", "r", "i", "g", "h", "t", "_", "h", "o", "l", "d", "e", "r", "_", "f", "u", "l", "l", "}", "\n">>)
        @@ (<<"f", "o", "o", "t", "e", "r">> :> <<"\n", "E", "n", "d">>)
        @@ (<<"l", "i", "c", "e", "n", "s", "e", "_", "g", "r", "o", "u", "p", "_", "h", "e", "a", "d", "e", "r">> :> <<"=", "=", " ", "{", "l", "i", "c", "e", "n", "s", "e", "_", "i", "d", "}", " ", "=", "=">>)
        @@ (<<"c", "o", "m", "p", "o", "n", "e", "n", "t", "_", "l", "i", "s", "t", "i", "n", "g">> :> <<"{", "s", "e", "r", "i", "a", "l", "_", "n", "u", "m", "b", "e", "r", "}", ".", " ", "{", "n", "a", "m", "e", "}", "{", "v", "e", "r", "s", "i", "o", "n", "_", "d", "i", "s", "p", "l", "a", "y", "}", "\n", "{", "c", "o", "p", "y", "r", "i", "g", "h", "t", "}", "{", "m", "o", "d", "i", "f", "i", "c", "a", "t", "i", "o", "n", "_", "n", "o", "t", "i", "c", "e", "_", "w", "i", "t", "h", "_", "n", "e", "w", "l", "i", "n", "e", "}", "{", "r", "e", "p", "o", "s", "i", "t", "o", "r", "y", "_", "s", "t", "a", "t", "e", "m", "e", "n", "t", "_", "w", "i", "t", "h", "_", "n", "e", "w", "l", "i", "n", "e", "}">>)
        @@ (<<"m", "o", "d", "i", "f", "i", "c", "a", "t", "i", "o", "n", "_", "u", "r", "l", "_", "c", "l", "a", "u", "s", "e">> :> <<" ", "(", "{", "m", "o", "d", "i", "f", "i", "e", "d", "_", "u", "r", "l", "}", ")">>)
        @@ (<<"m", "o", "d", "i", "f", "i", "c", "a", "t", "i", "o", "n", "_", "n", "o", "t", "i", "c", "e">> :> <<"M", "o", "d", "i", "f", "i", "e", "d", " ", "b", "y", " ", "{", "c", "o", "p", "y", "r", "i", "g", "h", "t", "_", "h", "o", "l", "d", "e", "r", "_", "s", "h", "o", "r", "t", "}", "{", "m", "o", "d", "i", "f", "i", "e", "d", "_", "u", "r", "l", "_", "c", "l", "a", "u", "s", "e", "}">>)
        @@ (<<"o", "t", "h", "e", "r", "s", "_", "l", "i", "c", "e", "n", "s", "e", "_", "n", "o", "t", "i", "c", "e">> :> <<"O", "t", "h", "e", "r", " ", "n", "o", "t", "i", "c", "e", "s", ":", " ", "{", "u", "r", "l", "}">>)
        @@ (<<"v", "e", "r", "s", "i", "o", "n", "_", "d", "i", "s", "p", "l", "a", "y">> :> <<" ", "v", "{", "v", "e", "r", "s", "i", "o", "n", "}">>)
        @@ (<<"s", "i", "n", "g", "l", "e", "_", "l", "i", "c", "e", "n", "s", "e", "_", "f", "o", "o", "t", "e", "r">> :> <<"\n", "T", "e", "r", "m", "s", ":", "\n", "\n", "{", "l", "i", "c", "e", "n", "s", "e", "_", "t", "e", "x", "t", "}">>)
        @@ (<<"l", "i", "c", "e", "n", "s", "e", "_", "g", "r", "o", "u", "p", "_", "f", "o", "o", "t", "e", "r">> :> <<"\n", "T", "e", "r", "m", "s", " ", "o", "f", " ", "{", "l", "i", "c", "e", "n", "s", "e", "_", "i", "d", "}", ":", "\n", "\n", "{", "l", "i", "c", "e", "n", "s", "e", "_", "t", "e", "x", "t", "}">>)

\* no templates.yaml, or one that is not a mapping: _load_templates
\* returns {}
Templates_None == <<>>

\* a templates.yaml with the component_listing template alone
Templates_ListingOnly ==
    <<"c", "o", "m", "p", "o", "n", "e", "n", "t", "_", "l", "i", "s", "t", "i", "n", "g">> :> <<"{", "s", "e", "r", "i", "a", "l", "_", "n", "u", "m", "b", "e", "r", "}", ".", " ", "{", "n", "a", "m", "e", "}", " ", "(", "v", "{", "v", "e", "r", "s", "i", "o", "n", "}", ")", "\n", "{", "c", "o", "p", "y", "r", "i", "g", "h", "t", "}">>

TemplateConfigs == {Templates_Configured, Templates_None, Templates_ListingOnly}

GeneratorInit ==
    /\ components \in ListsOf(ListedComponents, MaxComponents)
    /\ license_serial_starts \in SerialStarts
    /\ templates \in TemplateConfigs
    /\ licenses = _load_licenses(Config_Full)
    /\ missing_licenses = {}
    /\ grouped = <<>>
    /\ listed = <<>>
    /\ attribution = <<>>
    /\ content = <<>>
    /\ cleaned = <<>>
    /\ license_expression = NoneStr
    /\ include_license_headers = TRUE
    /\ expr_tree = NoneNode
    /\ result = NoneStr
    /\ pc = "call"
    /\ NoSession

\* attribution = self.generate_attribution(components)
GenerateAttribution ==
    /\ pc = "call"
    /\ attribution' = generate_attribution(components)
    /\ grouped' = attribution'.grouped
    /\ listed' = attribution'.listed
    /\ missing_licenses' = missing_licenses \cup attribution'.added
    /\ pc' = "return"
    /\ UNCHANGED <<components, license_serial_starts, templates, content,
                   cleaned>>
    /\ UNCHANGED <<license_expression, expr_tree, licenses,
                   include_license_headers, result>>
    /\ UNCHANGED session_vars

GeneratorNext == GenerateAttribution

GeneratorSpec == GeneratorInit /\ [][GeneratorNext]_vars

----------------------------------------------------------------------------
\* the keys of the groups of the call
GroupKeys == {StatedKey(components[i]) : i \in DOMAIN components}

\* the components of the call that have the key, in the order of the list
GroupOf(key) == SelectSeq(components, LAMBDA c : StatedKey(c) = key)

\* the component_listing calls made for the group of the key, in the order
\* they were made
ListedOf(key) == SelectSeq(listed, LAMBDA l : l.license_id = key)

\* the start of the numbering of a group: the configured one of exactly
\* that key, 1 without one
StatedStart(key) ==
    IF key \in DOMAIN license_serial_starts
    THEN license_serial_starts[key]
    ELSE 1

\* the line of the document that the configured component_listing template
\* begins an entry with
EntryLine(serial_number, name) == NL \o StrOf(serial_number) \o <<".", " ">> \o name

\* C27: in generate_attribution the components of a license group are
\* numbered consecutively in input order: the component at offset k (k = 0,
\* 1, ...) of the group is formatted with serial number start + k, where
\* start is license_serial_starts[key] when configured for exactly that key
\* and 1 otherwise, whatever the other groups are; a generation that
\* completes numbers every component, and with the configured
\* component_listing template the document has the entry line of each.
C27_SerialNumbers ==
    pc = "return" =>
        \A key \in GroupKeys :
            /\ Len(ListedOf(key)) <= Len(GroupOf(key))
            /\ attribution.raised = "None" =>
                   Len(ListedOf(key)) = Len(GroupOf(key))
            /\ \A k \in DOMAIN ListedOf(key) :
                   /\ ListedOf(key)[k] =
                          [license_id |-> key,
                           name |-> GroupOf(key)[k].name,
                           serial_number |-> StatedStart(key) + (k - 1)]
                   /\ attribution.raised = "None"
                          /\ templates = Templates_Configured =>
                          Contains(attribution.value,
                                   EntryLine(StatedStart(key) + (k - 1),
                                             GroupOf(key)[k].name))

\* [a: 'MIT', d: 'mit', b: 'MIT'] with the start 5 configured for 'MIT':
\* a and b are 5 and 6, d is 1
C27_Witness ==
    /\ pc = "return"
    /\ attribution.raised = "None"
    /\ templates = Templates_Configured
    /\ Len(components) = 3
    /\ components[1].name = <<"a">>
    /\ components[2].name = <<"d">>
    /\ components[3].name = <<"b">>
    /\ listed = << [license_id |-> Id_MIT, name |-> <<"a">>, serial_number |-> 5],
                   [license_id |-> Id_MIT, name |-> <<"b">>, serial_number |-> 6],
                   [license_id |-> Id_mit, name |-> <<"d">>, serial_number |-> 1] >>

----------------------------------------------------------------------------
\* _clean_content on its own

\* the characters of the texts: a letter, a blank, the two line breaks
ContentChars == {"a", " ", "\n", "\r"}

Contents == UNION {[1..n -> ContentChars] : n \in 0..MaxContent}

CleanInit ==
    /\ content \in Contents
    /\ cleaned = <<>>
    /\ components = <<>>
    /\ license_serial_starts = <<>>
    /\ templates = <<>>
    /\ grouped = <<>>
    /\ listed = <<>>
    /\ attribution = <<>>
    /\ licenses = <<>>
    /\ missing_licenses = {}
    /\ license_expression = NoneStr
    /\ include_license_headers = TRUE
    /\ expr_tree = NoneNode
    /\ result = NoneStr
    /\ pc = "call"
    /\ NoSession

\* cleaned = self._clean_content(content)
CleanContent ==
    /\ pc = "call"
    /\ cleaned' = _clean_content(content)
    /\ pc' = "return"
    /\ UNCHANGED <<components, license_serial_starts, templates, grouped,
                   listed, attribution, content>>
    /\ UNCHANGED <<license_expression, expr_tree, licenses, missing_licenses,
                   include_license_headers, result>>
    /\ UNCHANGED session_vars

CleanNext == CleanContent

CleanSpec == CleanInit /\ [][CleanNext]_vars

----------------------------------------------------------------------------
\* the text has two empty lines next to each other: three line breaks in a
\* row
TwoEmptyLines(text) ==
    \E i \in 1..Len(text) - 2 :
        text[i] = "\n" /\ text[i + 1] = "\n" /\ text[i + 2] = "\n"

\* C28: _clean_content replaces every run of several blank lines by one and
\* drops the blank lines at the start and at the end: its result never has
\* two empty lines next to each other, and neither begins nor ends with a
\* line break.
C28_NoAdjacentEmptyLines ==
    pc = "return" =>
        /\ ~TwoEmptyLines(cleaned)
        /\ cleaned # <<>> => cleaned[1] # "\n" /\ cleaned[Len(cleaned)] # "\n"

----------------------------------------------------------------------------
\* C29: the template fallback is usable: the defaults that get_template
\* returns for the names generate_attribution asks for have only fields that
\* its format calls supply, so that generate_attribution on a list that is
\* not empty, with no template configured, returns a document and raises no
\* formatting error.
C29_FallbackUsable ==
    pc = "return" /\ templates = Templates_None /\ components # <<>> =>
        attribution.raised = "None"

====
